---- MODULE Spec2Model ----
(***************************************************************************)
(* State-machine model of the Perun adjudicator canister                   *)
(* (perun-icp-canister): the holdings ledger, the channel registry, the    *)
(* deposit / conclude / dispute / withdraw protocol of src/src/lib.rs and  *)
(* the ICP payment receiver of src/src/icp.rs.                             *)
(*                                                                         *)
(* Cryptography is abstracted symbolically: a public key is the name of    *)
(* its owner, a signature is the pair (signing key, signed bytes), a hash  *)
(* is the tuple of the hashed fields (collision free).  Everything else    *)
(* (order of checks, byte layout of the signed encodings, map updates)     *)
(* follows the Rust code.                                                  *)
(***************************************************************************)
EXTENDS Integers, Sequences, FiniteSets, TLC

VARIABLES
    holdings,   \* CanisterState.holdings : HashMap<Funding, Amount>
    channels,   \* CanisterState.channels : HashMap<ChannelId, RegisteredState>
    known_txs,  \* Receiver.known_txs     : BTreeSet<BlockHeight>
    unspent,    \* Receiver.unspent       : BTreeMap<Memo, Amount>
    txs,        \* MockTXQuerier.txs      : BTreeMap<BlockHeight, TransactionNotification>
    clock,      \* ic_cdk::api::time(), the canister's block time
    credited,   \* history: amount credited to each channel's slots by deposits
    paid_out,   \* history: amount returned by successful withdraws, per channel
    verified,   \* history: how often each block height was added to unspent
    last,       \* history: the last call (operation, slot, result)
    audit,      \* whether the history variables credited, paid_out, verified are kept
    pending,    \* the ledger transfers of withdraw_impl calls that await their reply
    lock,       \* STATE (RwLock<CanisterState>): "held" while a suspended call keeps its guard
    events,     \* events::STATE.events  : BTreeMap<ChannelId, BTreeMap<Timestamp, Vec<Event>>>
    emitted,    \* history: the registered events (channel, time, event) in the order of registration
    logging,    \* whether the event log is kept; no handler of the adjudicator reads it
    poisoned    \* events::STATE (RwLock): whether a holder of its write guard has panicked

vars == <<holdings, channels, known_txs, unspent, txs, clock, credited, paid_out, verified,
          last, audit, pending, lock, events, emitted, logging, poisoned>>

(***************************************************************************)
(* Bounds of the model.                                                    *)
(***************************************************************************)
MaxTime == 2        \* the clock runs over 0..MaxTime
MaxVersion == 1     \* submitted states carry a version in 0..MaxVersion
MaxAmount == 1      \* allocation entries and deposit amounts range over 0..MaxAmount
MaxHolding == 2     \* deposits stop when a slot would hold more than this
MaxCredit == 2      \* audited runs: deposits stop when a channel was credited this much
MaxBlock == 2       \* block heights passed to transaction_notification: 0..MaxBlock
MaxHeight == 6      \* block heights notified in front of the ICP ledger: 0..MaxHeight
MaxPending == 2     \* withdraw_impl calls whose ledger transfer is in flight
MaxEvents == 3      \* logged runs: events are registered until the log holds this many
TimestampBits == 4  \* width of Timestamp and Duration in the model, standing for the 64 of u64

(***************************************************************************)
(* Program constants.                                                      *)
(***************************************************************************)
ChallengeDuration == 1   \* test::Setup: challenge_duration: 1
ByteBase == 256          \* BigUint::to_bytes_le yields base-256 digits
NanosPerSecond == 1000000000   \* dispute: challenge_duration * 1_000_000_000

(***************************************************************************)
(* Accounts, parameters, channel ids.                                      *)
(***************************************************************************)
Alice == "Alice"
Bob == "Bob"
Accounts == {Alice, Bob}
Parts == <<Alice, Bob>>            \* test::Setup.parts
DefaultReceiver == "bkyz2"         \* test::default_account()
MyAccount == "canister"            \* Receiver.my_account
OtherAccount == "elsewhere"

\* Params::id(): the hash of nonce || participants || challenge_duration.
ParamsId(p) == <<p.nonce, p.participants, p.challenge_duration>>

SetupParams == [nonce |-> 1, participants |-> Parts, challenge_duration |-> ChallengeDuration]
\* test_conclude_invalid_params: s.params.challenge_duration += 1
OtherParams == [SetupParams EXCEPT !.challenge_duration = @ + 1]

\* Params that list the first participant twice: nothing in Params or in
\* FullySignedState::validate requires the participants to differ.
TwinParams == [SetupParams EXCEPT !.participants = <<Alice, Alice>>]

\* The channels withdrawals are requested for.
RequestChannels == {ParamsId(SetupParams), ParamsId(OtherParams)}

ChannelIds == RequestChannels \cup {ParamsId(TwinParams)}
NoChannel == <<>>

\* Funding::new(channel, participant)
Funding(ch, who) == <<ch, who>>
Fundings == {Funding(ch, who) : ch \in ChannelIds, who \in Accounts}

\* Funding::memo(): the first 8 bytes of the hash of channel || participant.
Memo(f) == <<"memo", f[1], f[2]>>

(***************************************************************************)
(* Canonical encodings and signatures.                                     *)
(***************************************************************************)
RECURSIVE ToBytesLe(_)
\* BigUint::to_bytes_le: little-endian base-256 digits, <<0>> for zero.
ToBytesLe(n) == IF n < ByteBase THEN <<n>> ELSE <<n % ByteBase>> \o ToBytesLe(n \div ByteBase)

RECURSIVE AllocationBytes(_)
AllocationBytes(alloc) ==
    IF alloc = <<>> THEN <<>> ELSE ToBytesLe(Head(alloc)) \o AllocationBytes(Tail(alloc))

\* The message State::validate_sig verifies:
\* channel || version (u64 LE) || amounts (to_bytes_le, no length prefix) || finalized.
EncodeState(st) ==
    <<st.channel, st.version>> \o AllocationBytes(st.allocation)
        \o <<IF st.finalized THEN 1 ELSE 0>>

\* The message WithdrawalRequest::validate_sig verifies: channel || participant || receiver.
EncodeWithdrawal(req) == <<req.channel, req.participant, req.receiver>>

\* Ed25519: a signature made with key `key` over `msg`.
Sign(key, msg) == [signer |-> key, msg |-> msg]
\* PublicKey::verify_strict(msg, sig)
VerifyStrict(pk, msg, sig) == sig.signer = pk /\ sig.msg = msg

\* State::validate_sig
StateValidateSig(st, sig, pk) == VerifyStrict(pk, EncodeState(st), sig)

\* A validate_sig that checks the signed message and not the key that signed it.
WithdrawalValidateSigAnyKey(req, sig) == sig.msg = EncodeWithdrawal(req)

\* WithdrawalRequest::validate_sig
WithdrawalValidateSig(req, sig) == VerifyStrict(req.participant, EncodeWithdrawal(req), sig)

(***************************************************************************)
(* State, RegisteredState.                                                 *)
(***************************************************************************)
RECURSIVE SumSeq(_)
SumSeq(s) == IF s = <<>> THEN 0 ELSE Head(s) + SumSeq(Tail(s))

\* State::total
Total(st) == SumSeq(st.allocation)

\* State::may_be_underfunded
MayBeUnderfunded(st) == st.version = 0 /\ ~st.finalized

\* A settled() that looks at the timeout only.
SettledByTimeoutOnly(rs, now) == now >= rs.timeout

\* RegisteredState::settled
Settled(rs, now) == rs.state.finalized \/ now >= rs.timeout

\* A validate that verifies the first participant's signature only.
ValidateFirstSignatureOnly(fss, params) ==
    IF fss.state.channel # ParamsId(params) THEN "InvalidInput"
    ELSE IF Len(fss.sigs) # Len(params.participants) THEN "InvalidInput"
    ELSE IF Len(fss.sigs) # Len(fss.state.allocation) THEN "InvalidInput"
    ELSE IF ~StateValidateSig(fss.state, fss.sigs[1], params.participants[1])
         THEN "Authentication"
    ELSE "none"

\* A validate that does not compare state.channel with params.id().
ValidateIgnoresChannel(fss, params) ==
    IF Len(fss.sigs) # Len(params.participants) THEN "InvalidInput"
    ELSE IF Len(fss.sigs) # Len(fss.state.allocation) THEN "InvalidInput"
    ELSE IF \E i \in 1..Len(params.participants) :
                ~StateValidateSig(fss.state, fss.sigs[i], params.participants[i])
         THEN "Authentication"
    ELSE "none"

\* FullySignedState::validate: the first failing check, "none" when all pass.
Validate(fss, params) ==
    IF fss.state.channel # ParamsId(params) THEN "InvalidInput"
    ELSE IF Len(fss.sigs) # Len(params.participants) THEN "InvalidInput"
    ELSE IF Len(fss.sigs) # Len(fss.state.allocation) THEN "InvalidInput"
    ELSE IF \E i \in 1..Len(params.participants) :
                ~StateValidateSig(fss.state, fss.sigs[i], params.participants[i])
         THEN "Authentication"
    ELSE "none"

\* A validate_final that does not look at the finalized flag.
ValidateFinalSkipsFlag(fss, params) == Validate(fss, params)

\* FullySignedState::validate_final
ValidateFinal(fss, params) ==
    IF ~fss.state.finalized THEN "NotFinalized" ELSE Validate(fss, params)

\* RegisteredState::conclude: the registered state on success.
RegisteredConclude(fss) == [state |-> fss.state, timeout |-> 0]

\* The number of values of Timestamp and Duration (u64).
TimestampModulus == 2 ^ TimestampBits

\* `now + params.challenge_duration` on u64 in a build without overflow checks:
\* the sum wraps around.  (A build with overflow checks panics when the sum does
\* not fit; the panic discards the changes of the call, so such a call is not a
\* step.)
TimeoutAfter(now, duration) == (now + duration) % TimestampModulus

\* RegisteredState::dispute: timeout = now + params.challenge_duration, whether or
\* not the state is final.
RegisteredDispute(fss, params, now) ==
    [state |-> fss.state, timeout |-> TimeoutAfter(now, params.challenge_duration)]

(***************************************************************************)
(* Maps (HashMap / BTreeMap) as functions with a finite domain.            *)
(***************************************************************************)
EmptyMap == [x \in {} |-> 0]

\* HashMap::get(..).cloned().unwrap_or_default()
GetOrDefault(m, k) == IF k \in DOMAIN m THEN m[k] ELSE 0

\* HashMap::insert
Insert(m, k, v) == [x \in (DOMAIN m) \cup {k} |-> IF x = k THEN v ELSE m[x]]

\* HashMap::remove
Remove(m, k) == [x \in (DOMAIN m) \ {k} |-> m[x]]

(***************************************************************************)
(* CanisterState: the handlers as functions of the maps they touch.  Each  *)
(* result is [err, holdings, channels, amount]; err = "none" is Ok.        *)
(***************************************************************************)
Result(err, h, c, amount) == [err |-> err, holdings |-> h, channels |-> c, amount |-> amount]

\* A deposit that overwrites the slot with the deposited amount.
CreditOverwrites(h, funding, amount) == Insert(h, funding, amount)

\* A deposit that adds to slots it finds and ignores absent ones.
CreditExistingOnly(h, funding, amount) ==
    IF funding \in DOMAIN h THEN Insert(h, funding, h[funding] + amount) ELSE h

\* CanisterState::deposit: *holdings.entry(funding).or_insert(0) += amount
Credit(h, funding, amount) == Insert(h, funding, GetOrDefault(h, funding) + amount)

\* CanisterState::state (query_state): channels.get(&id).cloned(), an Option.
QueryState(c, id) == IF id \in DOMAIN c THEN <<c[id]>> ELSE <<>>

\* CanisterState::query_holdings: holdings.get(&funding).cloned(), an Option;
\* None is <<>> and Some(v) is <<v>>.
QueryHoldings(h, funding) == IF funding \in DOMAIN h THEN <<h[funding]>> ELSE <<>>

RECURSIVE UpdateHoldingsFrom(_, _, _, _)
UpdateHoldingsFrom(h, params, st, i) ==
    IF i > Len(st.allocation) THEN h
    ELSE UpdateHoldingsFrom(
             Insert(h, Funding(st.channel, params.participants[i]), st.allocation[i]),
             params, st, i + 1)

\* An update_holdings that leaves the holdings as deposited.
UpdateHoldingsKeepsDeposits(h, params, st) == h

\* CanisterState::update_holdings: every allocation entry is inserted into the
\* slot of the participant with the same index.
UpdateHoldings(h, params, st) == UpdateHoldingsFrom(h, params, st, 1)

\* A holdings_total that counts the slot of a participant once, however often
\* the params list the participant.
HoldingsTotalPerSlot(h, params) ==
    SumSeq([i \in 1..Len(params.participants) |->
               IF \E j \in 1..(i - 1) : params.participants[j] = params.participants[i]
               THEN 0
               ELSE GetOrDefault(h, Funding(ParamsId(params), params.participants[i]))])

\* CanisterState::holdings_total
HoldingsTotal(h, params) ==
    SumSeq([i \in 1..Len(params.participants) |->
               GetOrDefault(h, Funding(ParamsId(params), params.participants[i]))])

\* A register_channel that keeps the state registered first.
RegisterChannelKeepsFirst(h, c, params, rs) ==
    Result("none", UpdateHoldings(h, params, rs.state),
           IF rs.state.channel \in DOMAIN c THEN c ELSE Insert(c, rs.state.channel, rs), 0)

\* CanisterState::register_channel: pushes the allocation into the holdings,
\* then inserts the registered state under state.channel.  It never fails.
RegisterChannel(h, c, params, rs) ==
    Result("none", UpdateHoldings(h, params, rs.state), Insert(c, rs.state.channel, rs), 0)

\* A conclude that enters the state into the registry before it validates it.
ConcludeResultRegistersFirst(h, c, req, now) ==
    IF req.state.channel \in DOMAIN c /\ Settled(c[req.state.channel], now)
    THEN Result("AlreadyConcluded", h, c, 0)
    ELSE LET e == ValidateFinal(req, req.params)
             registered == Insert(c, req.state.channel, RegisteredConclude(req))
         IN  IF e # "none" THEN Result(e, h, registered, 0)
             ELSE RegisterChannel(h, c, req.params, RegisteredConclude(req))

\* A conclude that validates the request before it consults the registry.
ConcludeResultValidatesFirst(h, c, req, now) ==
    LET e == Validate(req, req.params)
    IN  IF e # "none" THEN Result(e, h, c, 0)
        ELSE IF req.state.channel \in DOMAIN c /\ Settled(c[req.state.channel], now)
        THEN Result("AlreadyConcluded", h, c, 0)
        ELSE IF ~req.state.finalized THEN Result("NotFinalized", h, c, 0)
        ELSE RegisterChannel(h, c, req.params, RegisteredConclude(req))

\* A conclude that, like dispute, requires a version above the registered one.
ConcludeResultChecksVersion(h, c, req, now) ==
    IF req.state.channel \in DOMAIN c /\ Settled(c[req.state.channel], now)
    THEN Result("AlreadyConcluded", h, c, 0)
    ELSE IF req.state.channel \in DOMAIN c
            /\ ~(c[req.state.channel].state.version < req.state.version)
    THEN Result("OutdatedState", h, c, 0)
    ELSE LET e == ValidateFinal(req, req.params)
         IN  IF e # "none" THEN Result(e, h, c, 0)
             ELSE RegisterChannel(h, c, req.params, RegisteredConclude(req))

\* CanisterState::conclude (and conclude_can)
ConcludeResult(h, c, req, now) ==
    IF req.state.channel \in DOMAIN c /\ Settled(c[req.state.channel], now)
    THEN Result("AlreadyConcluded", h, c, 0)
    ELSE LET e == ValidateFinal(req, req.params)
         IN  IF e # "none" THEN Result(e, h, c, 0)
             ELSE RegisterChannel(h, c, req.params, RegisteredConclude(req))

\* A dispute that does not look whether the registered state is settled.
DisputeResultIgnoresSettlement(h, c, req, now) ==
    IF req.state.channel \in DOMAIN c
       /\ ~(c[req.state.channel].state.version < req.state.version)
    THEN Result("OutdatedState", h, c, 0)
    ELSE LET e == Validate(req, req.params)
         IN  IF e # "none" THEN Result(e, h, c, 0)
             ELSE RegisterChannel(h, c, req.params, RegisteredDispute(req, req.params, now))

\* A dispute that accepts a state of the version already registered.
DisputeResultAcceptsSameVersion(h, c, req, now) ==
    IF req.state.channel \in DOMAIN c /\ Settled(c[req.state.channel], now)
    THEN Result("AlreadyConcluded", h, c, 0)
    ELSE IF req.state.channel \in DOMAIN c
            /\ ~(c[req.state.channel].state.version <= req.state.version)
    THEN Result("OutdatedState", h, c, 0)
    ELSE LET e == Validate(req, req.params)
         IN  IF e # "none" THEN Result(e, h, c, 0)
             ELSE RegisterChannel(h, c, req.params, RegisteredDispute(req, req.params, now))

\* A dispute that does not compare the version with the registered one.
DisputeResultNoVersionCheck(h, c, req, now) ==
    IF req.state.channel \in DOMAIN c /\ Settled(c[req.state.channel], now)
    THEN Result("AlreadyConcluded", h, c, 0)
    ELSE LET e == Validate(req, req.params)
         IN  IF e # "none" THEN Result(e, h, c, 0)
             ELSE RegisterChannel(h, c, req.params, RegisteredDispute(req, req.params, now))

\* CanisterState::dispute (and dispute_can)
DisputeResult(h, c, req, now) ==
    IF req.state.channel \in DOMAIN c /\ Settled(c[req.state.channel], now)
    THEN Result("AlreadyConcluded", h, c, 0)
    ELSE IF req.state.channel \in DOMAIN c
            /\ ~(c[req.state.channel].state.version < req.state.version)
    THEN Result("OutdatedState", h, c, 0)
    ELSE LET e == Validate(req, req.params)
         IN  IF e # "none" THEN Result(e, h, c, 0)
             ELSE RegisterChannel(h, c, req.params, RegisteredDispute(req, req.params, now))

\* The time at which CanisterState::withdraw evaluates settled(): `let now = req.time`.
WithdrawNow(req, blocktime) == req.time

\* A withdraw that pays the slot out and leaves it in the holdings.
WithdrawResultKeepsSlot(h, c, req, blocktime) ==
    IF ~WithdrawalValidateSig(req, req.signature) THEN Result("Authentication", h, c, 0)
    ELSE IF req.channel \notin DOMAIN c THEN Result("NotFinalized", h, c, 0)
    ELSE IF ~Settled(c[req.channel], WithdrawNow(req, blocktime))
    THEN Result("NotFinalized", h, c, 0)
    ELSE Result("none", h, c, GetOrDefault(h, Funding(req.channel, req.participant)))

\* A withdraw that pays out slots of channels that are not registered.
WithdrawResultPaysUnregistered(h, c, req, blocktime) ==
    IF ~WithdrawalValidateSig(req, req.signature) THEN Result("Authentication", h, c, 0)
    ELSE IF req.channel \in DOMAIN c /\ ~Settled(c[req.channel], WithdrawNow(req, blocktime))
    THEN Result("NotFinalized", h, c, 0)
    ELSE Result("none", Remove(h, Funding(req.channel, req.participant)), c,
                GetOrDefault(h, Funding(req.channel, req.participant)))

\* A withdraw that drops the registry entry of the channel it pays out of.
WithdrawResultForgetsChannel(h, c, req, blocktime) ==
    IF ~WithdrawalValidateSig(req, req.signature) THEN Result("Authentication", h, c, 0)
    ELSE IF req.channel \notin DOMAIN c THEN Result("NotFinalized", h, c, 0)
    ELSE IF ~Settled(c[req.channel], WithdrawNow(req, blocktime))
    THEN Result("NotFinalized", h, c, 0)
    ELSE Result("none", Remove(h, Funding(req.channel, req.participant)),
                Remove(c, req.channel),
                GetOrDefault(h, Funding(req.channel, req.participant)))

\* CanisterState::withdraw
WithdrawResult(h, c, req, blocktime) ==
    IF ~WithdrawalValidateSig(req, req.signature) THEN Result("Authentication", h, c, 0)
    ELSE IF req.channel \notin DOMAIN c THEN Result("NotFinalized", h, c, 0)
    ELSE IF ~Settled(c[req.channel], WithdrawNow(req, blocktime))
    THEN Result("NotFinalized", h, c, 0)
    ELSE Result("none", Remove(h, Funding(req.channel, req.participant)), c,
                GetOrDefault(h, Funding(req.channel, req.participant)))

(***************************************************************************)
(* Receiver (src/src/icp.rs).                                              *)
(***************************************************************************)
\* The value of `tx` in a query result that carries an error (never read).
NoTx == [to |-> OtherAccount, amount |-> 0, memo |-> <<>>]

\* MockTXQuerier::query_tx over its map of notifications
MockQueryTx(ledger, h) ==
    IF h \in DOMAIN ledger THEN [err |-> "none", tx |-> ledger[h]]
    ELSE [err |-> "FailedToQuery", tx |-> NoTx]

\* TransactionNotification::from_tx: Some for a transfer or a mint, None for a
\* transaction without operation or with any other operation.
FromTx(tx) ==
    IF tx.operation = "None" THEN <<>>
    ELSE IF tx.operation = "Transfer"
    THEN <<[to |-> tx.to, amount |-> tx.amount, memo |-> tx.memo]>>
    ELSE IF tx.operation = "Mint"
    THEN <<[to |-> tx.to, amount |-> tx.amount, memo |-> tx.memo]>>
    ELSE <<>>

\* TransactionNotification::get_amount
GetAmount(tx) == tx.amount

\* CanisterTXQuerier::query_tx over the blocks the ICP ledger returns
CanisterQueryTx(ledger, h) ==
    IF h \in DOMAIN ledger
    THEN IF FromTx(ledger[h]) # <<>>
         THEN [err |-> "none", tx |-> FromTx(ledger[h])[1]]
         ELSE [err |-> "TransactionType", tx |-> NoTx]
    ELSE [err |-> "FailedToQuery", tx |-> NoTx]

\* TXQuerier::query_tx of the receiver's querier: the canister querier when the
\* ledger holds blocks (transactions with an operation), the mock otherwise.
QueryTx(ledger, h) ==
    IF \E b \in DOMAIN ledger : "operation" \in DOMAIN ledger[b]
    THEN CanisterQueryTx(ledger, h)
    ELSE MockQueryTx(ledger, h)

\* A verify that does not remember the block heights it has seen.
VerifyResultForgetsHeights(known, unsp, ledger, h) ==
    LET q == QueryTx(ledger, h)
    IN  IF q.err # "none"
        THEN [err |-> q.err, known_txs |-> known, unspent |-> unsp, amount |-> 0]
        ELSE IF q.tx.to # MyAccount
        THEN [err |-> "Recipient", known_txs |-> known, unspent |-> unsp, amount |-> 0]
        ELSE [err |-> "none", known_txs |-> known,
              unspent |-> Insert(unsp, q.tx.memo, GetOrDefault(unsp, q.tx.memo) + q.tx.amount),
              amount |-> q.tx.amount]

\* A verify that replaces the unspent balance of the memo by the new amount.
VerifyResultOverwrites(known, unsp, ledger, h) ==
    LET q == QueryTx(ledger, h)
    IN  IF h \in known
        THEN [err |-> "DuplicateTransaction", known_txs |-> known, unspent |-> unsp,
              amount |-> 0]
        ELSE IF q.err # "none"
        THEN [err |-> q.err, known_txs |-> known, unspent |-> unsp, amount |-> 0]
        ELSE IF q.tx.to # MyAccount
        THEN [err |-> "Recipient", known_txs |-> known \cup {h}, unspent |-> unsp,
              amount |-> 0]
        ELSE [err |-> "none", known_txs |-> known \cup {h},
              unspent |-> Insert(unsp, q.tx.memo, GetAmount(q.tx)),
              amount |-> GetAmount(q.tx)]

\* Receiver::verify: [err, known_txs, unspent, amount]
VerifyResult(known, unsp, ledger, h) ==
    IF h \in known
    THEN [err |-> "DuplicateTransaction", known_txs |-> known, unspent |-> unsp, amount |-> 0]
    ELSE LET q == QueryTx(ledger, h)
         IN  IF q.err # "none"
             THEN [err |-> q.err, known_txs |-> known, unspent |-> unsp, amount |-> 0]
             ELSE IF h \in known   \* `if !self.known_txs.insert(block_height)`
             THEN [err |-> "DuplicateTransaction", known_txs |-> known, unspent |-> unsp,
                   amount |-> 0]
             ELSE IF q.tx.to # MyAccount
             THEN [err |-> "Recipient", known_txs |-> known \cup {h}, unspent |-> unsp,
                   amount |-> 0]
             ELSE [err |-> "none", known_txs |-> known \cup {h},
                   unspent |-> Insert(unsp, q.tx.memo,
                                      GetOrDefault(unsp, q.tx.memo) + GetAmount(q.tx)),
                   amount |-> GetAmount(q.tx)]

\* A drain that reads the unspent balance and leaves it in place.
DrainKeepsUnspent(unsp, memo) == [amount |-> GetOrDefault(unsp, memo), unspent |-> unsp]

\* Receiver::drain
Drain(unsp, memo) == [amount |-> GetOrDefault(unsp, memo), unspent |-> Remove(unsp, memo)]

(***************************************************************************)
(* The event log (src/src/events.rs).  An Event is a tagged tuple.         *)
(***************************************************************************)
\* Event::Funded { who, total, timestamp }
Funded(who, total, timestamp) == <<"Funded", who, total, timestamp>>

\* Event::Disputed { state, timestamp }
Disputed(rs, timestamp) == <<"Disputed", rs, timestamp>>

\* Event::Concluded { state, timestamp }
Concluded(rs, timestamp) == <<"Concluded", rs, timestamp>>

\* to_nanoseconds(challenge_duration) of CanisterState::dispute, as the comment at
\* its call gives it: challenge_duration * 1_000_000_000.
ToNanoseconds(duration) == duration * NanosPerSecond

\* A register_event that puts the event in front of those of the same time.
RegisterEventInFront(ev, time, ch, e) ==
    LET ofChannel == IF ch \in DOMAIN ev THEN ev[ch] ELSE EmptyMap
        atTime == IF time \in DOMAIN ofChannel THEN ofChannel[time] ELSE <<>>
    IN  Insert(ev, ch, Insert(ofChannel, time, <<e>> \o atTime))

\* LocalEventRegisterer::register_event:
\*   events.entry(ch).or_insert(default).entry(time).or_insert(default).push(e)
RegisterEvent(ev, time, ch, e) ==
    LET ofChannel == IF ch \in DOMAIN ev THEN ev[ch] ELSE EmptyMap
        atTime == IF time \in DOMAIN ofChannel THEN ofChannel[time] ELSE <<>>
    IN  Insert(ev, ch, Insert(ofChannel, time, Append(atTime, e)))

\* `for (_, es) in events.range(..) { ret.extend(es) }`: the vectors of the keys,
\* in ascending order of the keys.
RECURSIVE ExtendInKeyOrder(_, _)
ExtendInKeyOrder(ofChannel, keys) ==
    IF keys = {} THEN <<>>
    ELSE LET first == CHOOSE t \in keys : \A u \in keys : t <= u
         IN  ofChannel[first] \o ExtendInKeyOrder(ofChannel, keys \ {first})

\* LocalEventRegisterer::events_after
EventsAfter(ev, ch, time) ==
    IF ch \notin DOMAIN ev THEN <<>>
    ELSE ExtendInKeyOrder(ev[ch], {t \in DOMAIN ev[ch] : t >= time})

\* The allocation as Display for Event prints it: the amounts joined by ", ".
RECURSIVE AllocString(_)
AllocString(alloc) ==
    IF alloc = <<>> THEN ""
    ELSE IF Len(alloc) = 1 THEN ToString(alloc[1])
    ELSE ToString(alloc[1]) \o ", " \o AllocString(Tail(alloc))

\* Display for bool
BoolString(b) == IF b THEN "true" ELSE "false"

\* Display for Event.  (An account prints as its key, a channel id as its bytes.)
FormatEvent(e) ==
    IF e[1] = "Funded"
    THEN "Funded event: Funded_who=" \o e[2]
         \o ", Funded_total=TotalStart" \o ToString(e[3])
         \o "TotalEnd, Funded_timestamp=TimestampStart" \o ToString(e[4]) \o "TimestampEnd"
    ELSE LET tag == IF e[1] = "Disputed" THEN "Dispute" ELSE "Conclude"
             rs == e[2]
         IN  e[1] \o " event: " \o tag \o "_state=ChannelIDStart" \o ToString(rs.state.channel)
             \o "ChannelIDEnd, " \o tag \o "_state=VersionStart" \o ToString(rs.state.version)
             \o "VersionEnd, " \o tag \o "_timeout=FinalizedStart"
             \o BoolString(rs.state.finalized)
             \o "FinalizedEnd, " \o tag \o "_alloc=AllocStart" \o AllocString(rs.state.allocation)
             \o "AllocEnd, " \o tag \o "_timeout=TimeoutStart" \o ToString(rs.timeout)
             \o "TimeoutEnd, " \o tag \o "_timestamp=TimestampStart" \o ToString(e[3])
             \o "TimestampEnd"

\* `ret.push_str(&format!("{}\n", e))` for every event of the sequence
RECURSIVE FormatLines(_)
FormatLines(es) ==
    IF es = <<>> THEN "" ELSE FormatEvent(Head(es)) \o "\n" \o FormatLines(Tail(es))

\* LocalEventRegisterer::events_after_str, the reply of query_events
EventsAfterStr(ev, ch, time) ==
    IF ch \notin DOMAIN ev THEN "No events" ELSE FormatLines(EventsAfter(ev, ch, time))

(***************************************************************************)
(* Inputs.                                                                 *)
(***************************************************************************)
Allocations == {<<a, b>> : a \in 0..MaxAmount, b \in 0..MaxAmount}

\* The channel states the participants of the setup channel may have signed.
ChannelStates ==
    [channel : {ParamsId(SetupParams)}, version : 0..MaxVersion,
     allocation : Allocations, finalized : BOOLEAN]

\* test::Setup::sign_state: every participant signs the state.
SignState(st, parts) == [i \in 1..Len(parts) |-> Sign(parts[i], EncodeState(st))]

\* What is wrong with a request, if anything:
\*   "params"  the params differ from the channel's (test_conclude_invalid_params)
\*   "message" the first signature is over another message (sign_state_invalid)
\*   "signer"  the second signature was made with the first participant's key
\*   "nosig"   the last signature is missing
\*   "alloc"   the allocation has one entry too many (test_conclude_invalid_allocation)
Faults == {"none", "params", "message", "signer", "nosig", "alloc"}

SignedRequest(st, fault) ==
    LET st1 == IF fault = "alloc" THEN [st EXCEPT !.allocation = Append(@, 0)] ELSE st
        good == SignState(st1, Parts)
    IN  [params |-> IF fault = "params" THEN OtherParams ELSE SetupParams,
         state  |-> st1,
         sigs   |-> CASE fault = "message" ->
                            [good EXCEPT ![1] = Sign(Parts[1],
                                EncodeState([st1 EXCEPT !.finalized = ~@]))]
                      [] fault = "signer" -> [good EXCEPT ![2] = Sign(Parts[1], EncodeState(st1))]
                      [] fault = "nosig" -> SubSeq(good, 1, Len(good) - 1)
                      [] OTHER -> good]

\* The (params, fully signed state) pairs conclude and dispute are called with.
Requests == {SignedRequest(st, fault) : st \in ChannelStates, fault \in Faults}

\* Whether every participant's signature verifies against the state.
AllSigsVerify(req) ==
    /\ Len(req.sigs) = Len(req.params.participants)
    /\ \A i \in 1..Len(req.sigs) :
           StateValidateSig(req.state, req.sigs[i], req.params.participants[i])

\* WithdrawalRequest::new, signed by `signer` (test::Setup::sign_withdrawal).
WithdrawalRequest(ch, who, signer, time) ==
    LET body == [channel |-> ch, participant |-> who, receiver |-> DefaultReceiver]
    IN  [channel |-> ch, participant |-> who, receiver |-> DefaultReceiver,
         signature |-> Sign(signer, EncodeWithdrawal(body)), time |-> time]

WithdrawalRequests ==
    {WithdrawalRequest(ch, who, signer, t) :
        ch \in RequestChannels, who \in Accounts, signer \in Accounts, t \in 0..MaxTime}

\* The external ledger as the receiver's querier sees it: blocks 0 and 1 each pay
\* 1 to the canister for Alice's slot of the setup channel, block 2 pays someone
\* else; every other height has no block.
SetupLedger ==
    LET memo == Memo(Funding(ParamsId(SetupParams), Alice))
    IN  [h \in 0..2 |-> [to |-> IF h = 2 THEN OtherAccount ELSE MyAccount,
                         amount |-> 1, memo |-> memo]]

(***************************************************************************)
(* The state machine.                                                      *)
(***************************************************************************)
\* The record of a call: the operation, the channel and participant it names, its
\* result, and for conclude and dispute the version that was registered for the
\* channel when the call arrived (-1 when none was).
Call(op, ch, who, err, amount) ==
    [op |-> op, channel |-> ch, who |-> who, err |-> err, amount |-> amount,
     prev |-> IF op \in {"conclude", "dispute"} /\ ch \in DOMAIN channels
              THEN channels[ch].state.version ELSE -1,
     funded |-> FALSE]

\* The record of a conclude or dispute call, which also tells whether the holdings
\* of the channel covered the submitted allocation when the call arrived.
RequestCall(op, req, err) ==
    [Call(op, req.state.channel, "", err, 0) EXCEPT
        !.funded = HoldingsTotal(holdings, req.params) >= SumSeq(req.state.allocation)]

\* CanisterState::new with Receiver::new over the querier's ledger.
InitWith(ledger, keepHistory) ==
    /\ holdings = EmptyMap
    /\ channels = EmptyMap
    /\ known_txs = {}
    /\ unspent = EmptyMap
    /\ txs = ledger
    /\ clock = 0
    /\ credited = [ch \in ChannelIds |-> 0]
    /\ paid_out = [ch \in ChannelIds |-> 0]
    /\ verified = [h \in (0..MaxBlock) \cup DOMAIN ledger |-> 0]
    /\ last = Call("new", NoChannel, "", "none", 0)
    /\ audit = keepHistory
    /\ pending = <<>>
    /\ lock = "free"
    /\ events = EmptyMap
    /\ emitted = <<>>
    /\ logging = FALSE
    /\ poisoned = FALSE

\* test::Setup: CanisterState::new(MockTXQuerier::default(), ..), an empty ledger.
Init == InitWith(EmptyMap, FALSE)

receiverVars == <<known_txs, unspent, txs, verified>>

transferVars == <<pending, lock>>

logVars == <<events, emitted, logging, poisoned>>

\* events::STATE.write() returns Ok unless the lock is poisoned.  The handlers
\* that unwrap() the result panic on Err; the panic discards the changes of the
\* call, so such a call is not a step.
EventLockOk == ~poisoned

\* Bound of the model: a logged run registers at most MaxEvents events.
CanEmit == logging => Len(emitted) < MaxEvents

\* events::STATE.write().unwrap().register_event(time, ch, e) of a handler that
\* reached it (`emits`), in the runs that keep the log.
Emit(emits, time, ch, e) ==
    IF logging /\ emits
    THEN /\ events' = RegisterEvent(events, time, ch, e)
         /\ emitted' = Append(emitted, [channel |-> ch, time |-> time, event |-> e])
         /\ UNCHANGED <<logging, poisoned>>
    ELSE UNCHANGED logVars

\* STATE.write().unwrap() of an endpoint: the call proceeds when no suspended call
\* keeps a guard of the lock.
Unlocked == lock = "free"

\* The slots deposits are made to: those of the setup channel (test::Setup::funding).
DepositFundings == {Funding(ParamsId(SetupParams), who) : who \in Accounts}

\* Bound of the model: a deposit is taken while the slot, and in audited runs the
\* channel's credited total, stay within the bounds.
DepositInBounds(f, amount) ==
    /\ GetOrDefault(holdings, f) + amount <= MaxHolding
    /\ audit => credited[f[1]] + amount <= MaxCredit

\* deposit_mocked(funding, amount): CanisterState::deposit
DepositMocked(f, amount) ==
    /\ Unlocked
    /\ DepositInBounds(f, amount)
    /\ holdings' = Credit(holdings, f, amount)
    /\ credited' = IF audit THEN [credited EXCEPT ![f[1]] = @ + amount] ELSE credited
    /\ last' = Call("deposit_mocked", f[1], f[2], "none", amount)
    /\ UNCHANGED <<channels, clock, paid_out, receiverVars, audit, transferVars, logVars>>

\* transaction_notification(block_height): CanisterState::process_icp_tx
TransactionNotification(h) ==
    LET r == VerifyResult(known_txs, unspent, txs, h)
    IN  /\ Unlocked
        /\ known_txs' = r.known_txs
        /\ unspent' = r.unspent
        /\ verified' = IF audit /\ r.err = "none" THEN [verified EXCEPT ![h] = @ + 1]
                       ELSE verified
        /\ last' = Call("transaction_notification", NoChannel, "", r.err, r.amount)
        /\ UNCHANGED <<holdings, channels, txs, clock, credited, paid_out, audit, transferVars,
                       logVars>>

\* deposit(funding): CanisterState::deposit_icp
Deposit(f) ==
    LET d == Drain(unspent, Memo(f))
    IN  /\ Unlocked
        /\ DepositInBounds(f, d.amount)
        /\ CanEmit
        /\ EventLockOk
        /\ unspent' = d.unspent
        /\ holdings' = Credit(holdings, f, d.amount)
        /\ credited' = IF audit THEN [credited EXCEPT ![f[1]] = @ + d.amount] ELSE credited
        /\ Emit(TRUE, clock, f[1], Funded(f[2], Credit(holdings, f, d.amount)[f], clock))
        /\ last' = Call("deposit", f[1], f[2], "none", d.amount)
        /\ UNCHANGED <<channels, known_txs, txs, verified, clock, paid_out, audit, transferVars>>

\* conclude(params, signed state) at block time `clock`
Conclude(req) ==
    LET r == ConcludeResult(holdings, channels, req, clock)
    IN  /\ Unlocked
        /\ r.err = "none" => CanEmit /\ EventLockOk
        /\ holdings' = r.holdings
        /\ channels' = r.channels
        /\ Emit(r.err = "none", clock, req.state.channel,
                Concluded([state |-> req.state, timeout |-> clock], clock))
        /\ last' = RequestCall("conclude", req, r.err)
        /\ UNCHANGED <<clock, credited, paid_out, receiverVars, audit, transferVars>>

\* A dispute that reports success when the event log's lock cannot be taken.
DisputeReplyHidesFailure(err, writable) == err

\* The result of CanisterState::dispute after register_channel: `match
\* events::STATE.write()` returns Err(InvalidInput) when the lock is poisoned.
DisputeReply(err, writable) ==
    IF err = "none" /\ ~writable THEN "InvalidInput" ELSE err

\* dispute(params, signed state) at block time `clock`
Dispute(req) ==
    LET r == DisputeResult(holdings, channels, req, clock)
    IN  /\ Unlocked
        /\ r.err = "none" => CanEmit
        /\ holdings' = r.holdings
        /\ channels' = r.channels
        /\ Emit(r.err = "none" /\ EventLockOk, clock, req.state.channel,
                Disputed([state |-> req.state,
                          timeout |-> clock + ToNanoseconds(req.params.challenge_duration)],
                         clock))
        /\ last' = RequestCall("dispute", req, DisputeReply(r.err, EventLockOk))
        /\ UNCHANGED <<clock, credited, paid_out, receiverVars, audit, transferVars>>

\* withdraw_mocked(request): CanisterState::withdraw
Withdraw(req) ==
    LET r == WithdrawResult(holdings, channels, req, clock)
    IN  /\ Unlocked
        /\ holdings' = r.holdings
        /\ channels' = r.channels
        /\ paid_out' = IF audit THEN [paid_out EXCEPT ![req.channel] = @ + r.amount]
                       ELSE paid_out
        /\ last' = Call("withdraw", req.channel, req.participant, r.err, r.amount)
        /\ UNCHANGED <<clock, credited, receiverVars, audit, transferVars, logVars>>

\* The block time advances between calls.
Tick ==
    /\ clock < MaxTime
    /\ clock' = clock + 1
    /\ last' = Call("tick", NoChannel, "", "none", 0)
    /\ UNCHANGED <<holdings, channels, credited, paid_out, receiverVars, audit, transferVars,
                   logVars>>

Next ==
    \/ \E f \in DepositFundings, amount \in 0..MaxAmount : DepositMocked(f, amount)
    \/ \E h \in 0..MaxBlock : TransactionNotification(h)
    \/ \E f \in DepositFundings : Deposit(f)
    \/ \E req \in Requests : Conclude(req)
    \/ \E req \in Requests : Dispute(req)
    \/ \E req \in WithdrawalRequests : Withdraw(req)
    \/ Tick

Spec == Init /\ [][Next]_vars

\* The requests every participant signed correctly for the channel's own params.
WellFormedRequests == {SignedRequest(st, "none") : st \in ChannelStates}

\* The same machine with the history variables kept, called with well-formed
\* conclude and dispute requests.
NextAudit ==
    \/ \E f \in DepositFundings, amount \in 0..MaxAmount : DepositMocked(f, amount)
    \/ \E h \in 0..MaxBlock : TransactionNotification(h)
    \/ \E f \in DepositFundings : Deposit(f)
    \/ \E req \in WellFormedRequests : Conclude(req)
    \/ \E req \in WellFormedRequests : Dispute(req)
    \/ \E req \in WithdrawalRequests : Withdraw(req)
    \/ Tick

SpecAudit == InitWith(EmptyMap, TRUE) /\ [][NextAudit]_vars

\* The payment receiver in front of a ledger that holds blocks, with the deposits
\* that move its unspent balances into the holdings.
NextLedger ==
    \/ \E h \in 0..MaxBlock : TransactionNotification(h)
    \/ \E f \in DepositFundings : Deposit(f)
    \/ \E f \in DepositFundings, amount \in 0..MaxAmount : DepositMocked(f, amount)

SpecLedger == InitWith(SetupLedger, TRUE) /\ [][NextLedger]_vars

\* The ICP ledger as the canister querier sees it.  Blocks 0 (a transfer) and 1 (a
\* mint) each pay 1 to the canister for Alice's slot of the setup channel, block 2
\* pays 1 for Bob's slot, block 3 pays another account, block 4 is a burn and
\* block 5 carries no operation; every other height has no block.
CanisterLedger ==
    LET alice == Memo(Funding(ParamsId(SetupParams), Alice))
        bob == Memo(Funding(ParamsId(SetupParams), Bob))
    IN  [h \in 0..5 |->
            [operation |-> CASE h = 1 -> "Mint" [] h = 4 -> "Burn" [] h = 5 -> "None"
                             [] OTHER -> "Transfer",
             to |-> IF h = 3 THEN OtherAccount ELSE MyAccount,
             amount |-> 1,
             memo |-> IF h = 2 THEN bob ELSE alice]]

\* The receiver in front of the ICP ledger: transaction notifications for the
\* heights 0..MaxHeight and the deposits that drain the unspent balances.
NextReceiver ==
    \/ \E h \in 0..MaxHeight : TransactionNotification(h)
    \/ \E f \in DepositFundings : Deposit(f)

SpecReceiver == InitWith(CanisterLedger, TRUE) /\ [][NextReceiver]_vars

\* A request for the channel of `params`, signed by each listed participant.
SignedBy(params, st) ==
    [params |-> params, state |-> st, sigs |-> SignState(st, params.participants)]

\* The correctly signed requests that open the setup channel and the channel whose
\* params list one participant twice.
ParamsRequests ==
    {SignedBy(params, st) :
        params \in {SetupParams, TwinParams},
        st \in [channel : {ParamsId(SetupParams), ParamsId(TwinParams)},
                version : {0}, allocation : Allocations, finalized : BOOLEAN]}

\* Deposits and registrations for both channels, with the history variables kept.
NextParams ==
    \/ \E f \in DepositFundings \cup {Funding(ParamsId(TwinParams), Alice)},
          amount \in 1..MaxAmount : DepositMocked(f, amount)
    \/ \E req \in ParamsRequests : Conclude(req)
    \/ \E req \in ParamsRequests : Dispute(req)

SpecParams == InitWith(EmptyMap, TRUE) /\ [][NextParams]_vars

(***************************************************************************)
(* withdraw_impl: the withdraw that transfers on the external ledger.  The *)
(* call drains the slot, is suspended while the transfer is in flight, and *)
(* is resumed by the ledger's reply.                                       *)
(***************************************************************************)
\* A lock whose guard is kept by the suspended call.
LockKeptAcrossTransfer == "held"

\* `let amount = STATE.write().unwrap().withdraw(request)?;`: the guard is a
\* temporary of this statement and is dropped at its end, before the transfer.
LockAfterDrain == "free"

\* A failure path that credits nothing back.
RestoreNothing(h, funding, amount) == h

\* `STATE.write().unwrap().deposit(funding, amount)?` on a failed transfer.
RestoreHoldings(h, funding, amount) == Credit(h, funding, amount)

\* Removes the i-th element of a sequence.
RemoveAt(seq, i) == SubSeq(seq, 1, i - 1) \o SubSeq(seq, i + 1, Len(seq))

\* How the ledger answers a transfer: Ok(Ok(block)), Ok(Err(TransferError)), or a
\* rejected call.
TransferOutcomes == {"ok", "error", "reject"}

\* withdraw(request) up to the await of ic_ledger_types::transfer.  (Amounts stay
\* far below 2^64, so `amount_str.parse::<u64>().unwrap()` succeeds.)
WithdrawImplBegin(req) ==
    LET r == WithdrawResult(holdings, channels, req, clock)
    IN  /\ Unlocked
        /\ Len(pending) < MaxPending
        /\ holdings' = r.holdings
        /\ channels' = r.channels
        /\ IF r.err = "none"
           THEN /\ pending' = Append(pending,
                                     [funding |-> Funding(req.channel, req.participant),
                                      amount |-> r.amount])
                /\ lock' = LockAfterDrain
           ELSE UNCHANGED <<pending, lock>>
        /\ last' = Call("withdraw_impl", req.channel, req.participant, r.err, r.amount)
        /\ UNCHANGED <<clock, credited, paid_out, receiverVars, audit, logVars>>

\* The reply to the i-th pending transfer resumes withdraw_impl.
TransferReply(i, outcome) ==
    LET t == pending[i]
    IN  /\ pending' = RemoveAt(pending, i)
        /\ lock' = "free"
        /\ IF outcome = "ok"
           THEN /\ holdings' = holdings
                /\ paid_out' = IF audit THEN [paid_out EXCEPT ![t.funding[1]] = @ + t.amount]
                               ELSE paid_out
                /\ last' = Call("transfer_" \o outcome, t.funding[1], t.funding[2],
                                "none", t.amount)
           ELSE /\ holdings' = RestoreHoldings(holdings, t.funding, t.amount)
                /\ paid_out' = paid_out
                /\ last' = Call("transfer_" \o outcome, t.funding[1], t.funding[2],
                                "LedgerError", t.amount)
        /\ UNCHANGED <<channels, clock, credited, receiverVars, audit, logVars>>

\* Withdrawals of the setup channel signed by the participant they name, sent at
\* the canister's time.
TransferRequests ==
    {WithdrawalRequest(ParamsId(SetupParams), who, who, 0) : who \in Accounts}

\* The final states of the setup channel, signed by both participants.
FinalRequests == {req \in WellFormedRequests : req.state.finalized /\ req.state.version = 0}

\* Deposits, conclusion and ledger withdrawals of the setup channel.
NextTransfer ==
    \/ \E f \in DepositFundings, amount \in 1..MaxAmount : DepositMocked(f, amount)
    \/ \E req \in FinalRequests : Conclude(req)
    \/ \E req \in TransferRequests : WithdrawImplBegin(req)
    \/ \E i \in 1..Len(pending), outcome \in TransferOutcomes : TransferReply(i, outcome)

SpecTransfer == InitWith(EmptyMap, TRUE) /\ [][NextTransfer]_vars

(***************************************************************************)
(* The adjudicator with its event log, and the log's own endpoint.         *)
(***************************************************************************)
\* register_event(ch, time, e), the update endpoint of src/src/events.rs: the
\* caller chooses the channel, the time and the event.
RegisterEventCall(ch, time, e) ==
    /\ logging
    /\ CanEmit
    /\ EventLockOk
    /\ Emit(TRUE, time, ch, e)
    /\ last' = Call("register_event", ch, "", "none", 0)
    /\ UNCHANGED <<holdings, channels, clock, credited, paid_out, receiverVars, audit,
                   transferVars>>

\* The event callers of register_event send: its timestamp need not be the time
\* it is registered for.
CallerEvents == {Funded(Bob, MaxHolding, MaxTime)}

\* The requests of the logged runs: the states of the setup channel that allocate
\* nothing, signed by both participants.
LoggedRequests == {req \in WellFormedRequests : Total(req.state) = 0}

InitEvents ==
    /\ holdings = EmptyMap
    /\ channels = EmptyMap
    /\ known_txs = {}
    /\ unspent = EmptyMap
    /\ txs = EmptyMap
    /\ clock = 0
    /\ credited = [ch \in ChannelIds |-> 0]
    /\ paid_out = [ch \in ChannelIds |-> 0]
    /\ verified = [h \in 0..MaxBlock |-> 0]
    /\ last = Call("new", NoChannel, "", "none", 0)
    /\ audit = FALSE
    /\ pending = <<>>
    /\ lock = "free"
    /\ events = EmptyMap
    /\ emitted = <<>>
    /\ logging = TRUE
    /\ poisoned = FALSE

NextEvents ==
    \/ \E f \in DepositFundings : Deposit(f)
    \/ \E req \in LoggedRequests : Conclude(req)
    \/ \E req \in LoggedRequests : Dispute(req)
    \/ \E ch \in RequestChannels, time \in 0..MaxTime, e \in CallerEvents :
           RegisterEventCall(ch, time, e)
    \/ Tick

SpecEvents == InitEvents /\ [][NextEvents]_vars

(***************************************************************************)
(* Disputes at any block time, for any challenge duration.                 *)
(***************************************************************************)
\* Params of the setup participants with the challenge duration d.
DurationParams(d) == [SetupParams EXCEPT !.challenge_duration = d]

\* Correctly signed states that distribute nothing, for a channel of any
\* challenge duration.
TimeoutRequests ==
    {SignedBy(DurationParams(d),
              [channel |-> ParamsId(DurationParams(d)), version |-> v,
               allocation |-> <<0, 0>>, finalized |-> fin]) :
        d \in 0..(TimestampModulus - 1), v \in 0..MaxVersion, fin \in BOOLEAN}

\* The canister at any block time.
InitTimeout ==
    /\ holdings = EmptyMap
    /\ channels = EmptyMap
    /\ known_txs = {}
    /\ unspent = EmptyMap
    /\ txs = EmptyMap
    /\ clock \in 0..(TimestampModulus - 1)
    /\ credited = [ch \in ChannelIds |-> 0]
    /\ paid_out = [ch \in ChannelIds |-> 0]
    /\ verified = [h \in 0..MaxBlock |-> 0]
    /\ last = Call("new", NoChannel, "", "none", 0)
    /\ audit = FALSE
    /\ pending = <<>>
    /\ lock = "free"
    /\ events = EmptyMap
    /\ emitted = <<>>
    /\ logging = FALSE
    /\ poisoned = FALSE

\* The disputes of one channel, with the withdrawals that follow them.
NextTimeout ==
    \/ \E req \in TimeoutRequests :
           /\ DOMAIN channels \subseteq {req.state.channel}
           /\ Dispute(req)
    \/ \E ch \in DOMAIN channels :
           Withdraw(WithdrawalRequest(ch, Alice, Alice, clock))

SpecTimeout == InitTimeout /\ [][NextTimeout]_vars

(***************************************************************************)
(* The adjudicator when the lock of the event log gets poisoned.           *)
(***************************************************************************)
\* A holder of the write guard of events::STATE (a `pub static`) panics: from then
\* on RwLock::write returns Err.
PoisonEventLog ==
    /\ ~poisoned
    /\ poisoned' = TRUE
    /\ last' = Call("poison", NoChannel, "", "none", 0)
    /\ UNCHANGED <<holdings, channels, clock, credited, paid_out, receiverVars, audit,
                   transferVars, events, emitted, logging>>

NextPoisoned ==
    \/ \E f \in DepositFundings, amount \in 0..MaxAmount : DepositMocked(f, amount)
    \/ \E req \in WellFormedRequests : Conclude(req)
    \/ \E req \in WellFormedRequests : Dispute(req)
    \/ Tick
    \/ PoisonEventLog

SpecPoisoned == InitEvents /\ [][NextPoisoned]_vars

(***************************************************************************)
(* Vocabulary of the properties.                                           *)
(***************************************************************************)
SetupChannel == ParamsId(SetupParams)

\* The settlement predicate: finalized, or the timeout has been reached at time t.
IsSettledAt(ch, t) ==
    ch \in DOMAIN channels /\ (channels[ch].state.finalized \/ t >= channels[ch].timeout)

\* The sum of the holdings of the participants of params in channel ch (absent = 0).
ChannelHoldings(h, ch, params) ==
    SumSeq([i \in 1..Len(params.participants) |->
               GetOrDefault(h, Funding(ch, params.participants[i]))])

\* The request passes every check of conclude / dispute other than the funding:
\* structure, signatures, and for conclude the finalized flag.
StructurallyValid(req) ==
    /\ req.state.channel = ParamsId(req.params)
    /\ Len(req.sigs) = Len(req.params.participants)
    /\ Len(req.state.allocation) = Len(req.params.participants)

\* The allocation of the request exceeds the holdings of its channel.
UnderFunded(req) ==
    ChannelHoldings(holdings, req.state.channel, req.params) < SumSeq(req.state.allocation)

\* The call changed neither map.
Untouched(r) == r.holdings = holdings /\ r.channels = channels

(***************************************************************************)
(* C1  Monetary conservation: for every channel, the holdings of its       *)
(* participants plus what successful withdraws paid out equal what         *)
(* deposits credited to its slots.                                         *)
(***************************************************************************)
C1_Conservation ==
    \A ch \in ChannelIds :
        ChannelHoldings(holdings, ch, SetupParams) + paid_out[ch] = credited[ch]


\* A conclude registered an allocation for a channel nothing was ever deposited
\* to, and the channel holds funds.
C1_Witness ==
    /\ last.op = "conclude" /\ last.err = "none"
    /\ credited[last.channel] = 0 /\ paid_out[last.channel] = 0
    /\ ChannelHoldings(holdings, last.channel, SetupParams) > 0

(***************************************************************************)
(* C2  A correctly signed withdraw on a registered channel that is not     *)
(* settled at the canister's clock returns NotFinalized, pays nothing and  *)
(* leaves the holdings unchanged, whatever else the request carries.       *)
(***************************************************************************)
C2_WithdrawUnsettledRefused ==
    \A req \in WithdrawalRequests :
        (/\ WithdrawalValidateSig(req, req.signature)
         /\ req.channel \in DOMAIN channels
         /\ ~IsSettledAt(req.channel, clock))
        => LET r == WithdrawResult(holdings, channels, req, clock)
           IN  r.err = "NotFinalized" /\ r.amount = 0 /\ Untouched(r)


\* A withdraw paid a slot out while the challenge period of the channel was
\* still running at the canister's clock.
C2_Witness ==
    /\ last.op = "withdraw" /\ last.err = "none" /\ last.amount > 0
    /\ last.channel \in DOMAIN channels
    /\ ~IsSettledAt(last.channel, clock)

(***************************************************************************)
(* C3  Settlement irreversibility: once the registered state of a channel  *)
(* is settled at the clock, it stays registered, unchanged and settled at  *)
(* every later clock time, and every conclude and dispute naming the       *)
(* channel, with any params, state and signatures, fails with              *)
(* AlreadyConcluded and changes nothing.                                   *)
(***************************************************************************)
AllRejectedAsConcluded(h, c, ch, now) ==
    \A req \in Requests :
        req.state.channel = ch =>
            /\ ConcludeResult(h, c, req, now) = Result("AlreadyConcluded", h, c, 0)
            /\ DisputeResult(h, c, req, now) = Result("AlreadyConcluded", h, c, 0)

C3_SettlementIrreversible ==
    /\ [](\A ch \in DOMAIN channels :
              IsSettledAt(ch, clock) => AllRejectedAsConcluded(holdings, channels, ch, clock))
    /\ [][\A ch \in DOMAIN channels :
              IsSettledAt(ch, clock) =>
                  /\ ch \in DOMAIN channels'
                  /\ channels'[ch] = channels[ch]
                  /\ clock' >= clock
                  /\ (last'.op \in {"conclude", "dispute"} /\ last'.channel = ch)
                         => last'.err = "AlreadyConcluded"]_vars

\* A dispute was rejected as AlreadyConcluded on a channel whose non-final state
\* became binding because the challenge period ran out.
C3_Witness ==
    /\ last.op = "dispute" /\ last.err = "AlreadyConcluded"
    /\ last.channel \in DOMAIN channels
    /\ ~channels[last.channel].state.finalized
    /\ clock >= channels[last.channel].timeout

(***************************************************************************)
(* C4  Under-funding exception: a dispute that succeeds while the holdings *)
(* of the channel are below the sum of the submitted allocation registers  *)
(* a state with version 0 that is not finalized; any other under-funded    *)
(* state that passes the remaining checks is rejected with                 *)
(* InsufficientFunding.                                                    *)
(***************************************************************************)
C4_UnderfundedOnlyInitial ==
    \A req \in Requests :
        UnderFunded(req) =>
            LET r == DisputeResult(holdings, channels, req, clock)
            IN  /\ r.err = "none" => (req.state.version = 0 /\ ~req.state.finalized)
                /\ (/\ ~(req.state.version = 0 /\ ~req.state.finalized)
                    /\ StructurallyValid(req) /\ AllSigsVerify(req)
                    /\ ~IsSettledAt(req.state.channel, clock)
                    /\ (req.state.channel \in DOMAIN channels
                            => channels[req.state.channel].state.version < req.state.version))
                   => (r.err = "InsufficientFunding" /\ Untouched(r))


\* A dispute registered a state of version 1 with a non-empty allocation for a
\* channel nothing was ever deposited to.
C4_Witness ==
    /\ last.op = "dispute" /\ last.err = "none"
    /\ credited[last.channel] = 0
    /\ channels[last.channel].state.version >= 1
    /\ Total(channels[last.channel].state) > 0

(***************************************************************************)
(* C5  Monotone version: every successful dispute on a channel that has a  *)
(* registered state stores a version strictly greater than the one         *)
(* registered before it.                                                   *)
(***************************************************************************)
C5_MonotoneVersion ==
    /\ [](\A req \in Requests :
              LET ch == req.state.channel
                  r == DisputeResult(holdings, channels, req, clock)
              IN  (ch \in DOMAIN channels /\ r.err = "none")
                      => r.channels[ch].state.version > channels[ch].state.version)
    /\ [][\A ch \in DOMAIN channels :
              (last'.op = "dispute" /\ last'.channel = ch /\ last'.err = "none")
                  => channels'[ch].state.version > channels[ch].state.version]_vars

\* A dispute replaced a registered state.
C5_Witness ==
    /\ last.op = "dispute" /\ last.err = "none" /\ last.prev >= 0
    /\ channels[last.channel].state.version > last.prev

PassesConcludePrechecks(req) ==
    /\ ~IsSettledAt(req.state.channel, clock)
    /\ req.state.finalized
    /\ StructurallyValid(req)

\* The checks dispute makes before it verifies the signatures.
PassesDisputePrechecks(req) ==
    /\ ~IsSettledAt(req.state.channel, clock)
    /\ (req.state.channel \in DOMAIN channels
            => channels[req.state.channel].state.version < req.state.version)
    /\ StructurallyValid(req)

C7_WithdrawAuthentication ==
    /\ [](\A req \in WithdrawalRequests :
              LET r == WithdrawResult(holdings, channels, req, clock)
              IN  /\ req.signature.signer # req.participant
                         => (r.err = "Authentication" /\ r.amount = 0 /\ Untouched(r))
                  /\ r.holdings # holdings
                         => /\ req.signature.signer = req.participant
                            /\ r.holdings = Remove(holdings, Funding(req.channel, req.participant)))
    /\ [][(last'.op = "withdraw" /\ last'.err = "Authentication")
              => UNCHANGED <<holdings, channels>>]_vars

\* A withdraw from a settled channel, for a slot that holds funds, was rejected
\* for its signature.
C7_Witness ==
    /\ last.op = "withdraw" /\ last.err = "Authentication"
    /\ IsSettledAt(last.channel, clock)
    /\ GetOrDefault(holdings, Funding(last.channel, last.who)) > 0

(***************************************************************************)
(* C8  Withdraw idempotence: right after a successful withdraw(req) the    *)
(* same request succeeds again, returns 0 and removes nothing; and on a    *)
(* settled channel a slot that was paid out stays absent until a deposit   *)
(* names it, so every later correctly signed withdraw for it that passes   *)
(* the settlement check returns 0 as well.                                 *)
(***************************************************************************)
C8_WithdrawIdempotent ==
    /\ [](\A req \in WithdrawalRequests :
              LET r1 == WithdrawResult(holdings, channels, req, clock)
                  r2 == WithdrawResult(r1.holdings, r1.channels, req, clock)
              IN  r1.err = "none"
                      => /\ r2.err = "none" /\ r2.amount = 0
                         /\ r2.holdings = r1.holdings /\ r2.channels = r1.channels)
    /\ [][\A f \in Fundings :
              (IsSettledAt(f[1], clock) /\ f \notin DOMAIN holdings /\ f \in DOMAIN holdings')
                  => (last'.op \in {"deposit", "deposit_mocked"}
                      /\ last'.channel = f[1] /\ last'.who = f[2])]_vars

\* A withdraw paid out a slot that held funds.
C8_Witness ==
    /\ last.op = "withdraw" /\ last.err = "none" /\ last.amount > 0
    /\ Funding(last.channel, last.who) \notin DOMAIN holdings

C10_ConcludeUnderfundedRejected ==
    \A req \in Requests :
        (/\ req.state.finalized /\ StructurallyValid(req) /\ AllSigsVerify(req)
         /\ ~IsSettledAt(req.state.channel, clock)
         /\ UnderFunded(req))
        => LET r == ConcludeResult(holdings, channels, req, clock)
           IN  r.err = "InsufficientFunding" /\ Untouched(r)

\* A conclude registered a finalized state with a non-empty allocation for a
\* channel nothing was ever deposited to.
C10_Witness ==
    /\ last.op = "conclude" /\ last.err = "none"
    /\ credited[last.channel] = 0
    /\ channels[last.channel].state.finalized
    /\ Total(channels[last.channel].state) > 0

(***************************************************************************)
(* C11  When dispute accepts an under-funded initial state (version 0, not *)
(* finalized), every holdings slot of the channel keeps the amount         *)
(* deposited to it, so that after the challenge period each participant    *)
(* withdraws what that participant deposited.                              *)
(***************************************************************************)
C11_UnderfundedInitialKeepsHoldings ==
    \A req \in Requests :
        LET r == DisputeResult(holdings, channels, req, clock)
        IN  (UnderFunded(req) /\ MayBeUnderfunded(req.state) /\ r.err = "none")
                => \A i \in 1..Len(req.params.participants) :
                       LET slot == Funding(req.state.channel, req.params.participants[i])
                       IN  GetOrDefault(r.holdings, slot) = GetOrDefault(holdings, slot)

\* A dispute registered an initial state for a channel nothing was ever deposited
\* to, and the channel holds funds.
C11_Witness ==
    /\ last.op = "dispute" /\ last.err = "none"
    /\ credited[last.channel] = 0
    /\ MayBeUnderfunded(channels[last.channel].state)
    /\ ChannelHoldings(holdings, last.channel, SetupParams) > 0

\* The holdings of the channel of the request cover its allocation.
FullyFunded(req) == ~UnderFunded(req)

\* In holdings h the slot of every participant index i of the request exists and
\* holds shares[i].
SlotsMatch(h, req, shares) ==
    \A i \in 1..Len(req.params.participants) :
        LET slot == Funding(req.state.channel, req.params.participants[i])
        IN  slot \in DOMAIN h /\ h[slot] = shares[i]

(***************************************************************************)
(* C12  As claimed: after a successful conclude or dispute of a fully      *)
(* funded state, for every participant index i the slot of participants[i] *)
(* holds allocation[i] exactly.                                            *)
(***************************************************************************)
C12_SlotsEqualAllocation ==
    \A req \in ParamsRequests :
        LET rc == ConcludeResult(holdings, channels, req, clock)
            rd == DisputeResult(holdings, channels, req, clock)
            share == req.state.allocation
        IN  FullyFunded(req) =>
                /\ rc.err = "none" => SlotsMatch(rc.holdings, req, share)
                /\ rd.err = "none" => SlotsMatch(rd.holdings, req, share)

\* The highest index at which params lists the participant of index i.
LastIndexOf(params, i) ==
    CHOOSE j \in i..Len(params.participants) :
        /\ params.participants[j] = params.participants[i]
        /\ \A k \in (j + 1)..Len(params.participants) :
               params.participants[k] # params.participants[i]

(***************************************************************************)
(* C12 (amended)  After a successful conclude or dispute of a fully funded *)
(* state, the slot of participants[i] holds allocation[i] for every index  *)
(* i when the participants of params are pairwise different; in general it *)
(* holds the allocation entry of the last index that lists participants[i].*)
(* Once the registered state is settled, the first withdraw of that        *)
(* participant returns this amount.                                        *)
(***************************************************************************)
C12_SlotsFollowAllocation ==
    /\ [](\A req \in ParamsRequests :
              LET rc == ConcludeResult(holdings, channels, req, clock)
                  rd == DisputeResult(holdings, channels, req, clock)
                  share == [i \in 1..Len(req.params.participants) |->
                               req.state.allocation[LastIndexOf(req.params, i)]]
                  Pays(r) ==
                      \A i \in 1..Len(req.params.participants), t \in 0..MaxTime :
                          LET who == req.params.participants[i]
                              w == WithdrawResult(r.holdings, r.channels,
                                       WithdrawalRequest(req.state.channel, who, who, t), clock)
                          IN  Settled(r.channels[req.state.channel], t)
                                  => w.err = "none" /\ w.amount = share[i]
              IN  FullyFunded(req) =>
                      /\ rc.err = "none" => (SlotsMatch(rc.holdings, req, share) /\ Pays(rc))
                      /\ rd.err = "none" => (SlotsMatch(rd.holdings, req, share) /\ Pays(rd)))
    /\ [][(last'.op \in {"conclude", "dispute"} /\ last'.err = "none"
           /\ last'.channel = SetupChannel)
              => \A i \in 1..Len(Parts) :
                     holdings'[Funding(SetupChannel, Parts[i])]
                         = channels'[SetupChannel].state.allocation[i]]_vars

\* A conclude of the setup channel, whose deposits cover the allocation, moved
\* the deposited funds from one participant's slot to the other's.
C12_Witness ==
    /\ last.op = "conclude" /\ last.err = "none" /\ last.channel = SetupChannel
    /\ credited[SetupChannel] >= Total(channels[SetupChannel].state)
    /\ paid_out[SetupChannel] = 0
    /\ holdings[Funding(SetupChannel, Alice)] = 0
    /\ holdings[Funding(SetupChannel, Bob)] = MaxAmount

(***************************************************************************)
(* C13  Valid refutation: while the registered state of a channel is not   *)
(* settled, a dispute with a greater version, the signatures of all        *)
(* participants and sufficient funding succeeds and replaces the           *)
(* registered state; if the new state is finalized the channel is settled  *)
(* at the same clock time.                                                 *)
(***************************************************************************)
C13_ValidRefutation ==
    /\ [](\A req \in Requests :
              LET ch == req.state.channel
                  r == DisputeResult(holdings, channels, req, clock)
              IN  (/\ ch \in DOMAIN channels /\ ~IsSettledAt(ch, clock)
                   /\ req.state.version > channels[ch].state.version
                   /\ StructurallyValid(req) /\ AllSigsVerify(req) /\ FullyFunded(req))
                  => /\ r.err = "none"
                     /\ r.channels[ch].state = req.state
                     /\ r.channels[ch].timeout = clock + req.params.challenge_duration
                     /\ req.state.finalized => Settled(r.channels[ch], clock))
    /\ [][(last'.op = "dispute" /\ last'.err = "none"
           /\ channels'[last'.channel].state.finalized)
              => (clock' = clock /\ Settled(channels'[last'.channel], clock'))]_vars

\* A funded dispute replaced a registered state by a finalized one of a greater
\* version, and the channel is settled.
C13_Witness ==
    /\ last.op = "dispute" /\ last.err = "none" /\ last.funded
    /\ last.prev >= 0
    /\ channels[last.channel].state.version > last.prev
    /\ channels[last.channel].state.finalized
    /\ IsSettledAt(last.channel, clock)

(***************************************************************************)
(* C14  Outdated refutation: a dispute on an unsettled registered channel  *)
(* whose version is not greater than the registered one returns            *)
(* OutdatedState; the registry still shows the registered state (same      *)
(* version and timeout, still unsettled) and the holdings are unchanged.   *)
(***************************************************************************)
C14_OutdatedRefutation ==
    /\ [](\A req \in Requests :
              LET ch == req.state.channel
                  r == DisputeResult(holdings, channels, req, clock)
              IN  (/\ ch \in DOMAIN channels /\ ~IsSettledAt(ch, clock)
                   /\ req.state.version <= channels[ch].state.version)
                  => /\ r.err = "OutdatedState" /\ Untouched(r)
                     /\ ~Settled(r.channels[ch], clock))
    /\ [][(last'.op = "dispute" /\ last'.err = "OutdatedState")
              => /\ UNCHANGED <<holdings, channels, clock>>
                 /\ ~IsSettledAt(last'.channel, clock)]_vars

\* A dispute was rejected as outdated while a state of version 1 or more was
\* registered.
C14_Witness ==
    /\ last.op = "dispute" /\ last.err = "OutdatedState"
    /\ channels[last.channel].state.version >= 1
    /\ ~IsSettledAt(last.channel, clock)

(***************************************************************************)
(* C15  As claimed: conclude with a state whose finalized flag is false    *)
(* returns NotFinalized and registers nothing.                             *)
(***************************************************************************)
C15_NonFinalAlwaysNotFinalized ==
    \A req \in Requests :
        ~req.state.finalized =>
            LET r == ConcludeResult(holdings, channels, req, clock)
            IN  r.err = "NotFinalized" /\ Untouched(r)

(***************************************************************************)
(* C15 (amended)  conclude with a state whose finalized flag is false      *)
(* registers nothing and changes no holdings, signed and funded or not: it *)
(* returns AlreadyConcluded when the channel named in the state is settled *)
(* at the clock, and NotFinalized otherwise.  A state that is not final    *)
(* enters the registry through dispute only.                               *)
(***************************************************************************)
C15_ConcludeNeedsFinal ==
    /\ [](\A req \in Requests :
              ~req.state.finalized =>
                  LET r == ConcludeResult(holdings, channels, req, clock)
                  IN  /\ Untouched(r)
                      /\ r.err = IF IsSettledAt(req.state.channel, clock)
                                 THEN "AlreadyConcluded" ELSE "NotFinalized")
    /\ [][\A ch \in DOMAIN channels' :
              (/\ ~channels'[ch].state.finalized
               /\ (ch \notin DOMAIN channels \/ channels[ch] # channels'[ch]))
              => (last'.op = "dispute" /\ last'.err = "none")]_vars

\* A conclude of a state that is not final was refused for a channel that is
\* not registered and whose holdings cover the allocation.
C15_Witness ==
    /\ last.op = "conclude" /\ last.err = "NotFinalized" /\ last.funded
    /\ last.channel \notin DOMAIN channels
    /\ ChannelHoldings(holdings, last.channel, SetupParams) > 0

ValidationErrors ==
    {"Authentication", "NotFinalized", "AlreadyConcluded", "InvalidInput",
     "InsufficientFunding", "OutdatedState"}

C20_UnknownChannelAlwaysNotFinalized ==
    \A req \in WithdrawalRequests :
        req.channel \notin DOMAIN channels =>
            LET r == WithdrawResult(holdings, channels, req, clock)
            IN  r.err = "NotFinalized" /\ r.amount = 0 /\ Untouched(r)

(***************************************************************************)
(* C20 (amended)  withdraw for a channel that has no entry in the registry *)
(* pays nothing and leaves the holdings unchanged, also when the slot      *)
(* holds deposits: it returns NotFinalized when the request is signed by   *)
(* the participant it names, and Authentication, from the signature check  *)
(* that runs first, when it is not.                                        *)
(***************************************************************************)
C20_UnknownChannelRefused ==
    /\ [](\A req \in WithdrawalRequests :
              req.channel \notin DOMAIN channels =>
                  LET r == WithdrawResult(holdings, channels, req, clock)
                  IN  /\ r.amount = 0 /\ Untouched(r)
                      /\ r.err = IF WithdrawalValidateSig(req, req.signature)
                                 THEN "NotFinalized" ELSE "Authentication")
    /\ [][(last'.op = "withdraw" /\ last'.channel \notin DOMAIN channels)
              => (UNCHANGED holdings /\ last'.err \in {"NotFinalized", "Authentication"})]_vars

\* A correctly signed withdraw for a slot that holds deposits was refused because
\* the channel is not registered.
C20_Witness ==
    /\ last.op = "withdraw" /\ last.err = "NotFinalized"
    /\ last.channel \notin DOMAIN channels
    /\ GetOrDefault(holdings, Funding(last.channel, last.who)) > 0

\* The ledger's reply recorded in `last` reports a failed transfer.
TransferFailed(call) == call.op \in {"transfer_error", "transfer_reject"}

(***************************************************************************)
(* C17  Ledger failure on withdraw: when a withdraw on a settled channel   *)
(* has drained the slot and the transfer fails (error reply or rejected    *)
(* call), the call returns LedgerError and the drained amount is credited  *)
(* back to the slot: the slot then holds the drained amount, plus what was *)
(* deposited to it in the meantime, and a retried withdraw pays that out.  *)
(* A transfer that succeeds leaves the holdings as drained.                *)
(***************************************************************************)
C17_LedgerFailureRestores ==
    [][/\ TransferFailed(last') =>
              LET slot == Funding(last'.channel, last'.who)
                  retry == WithdrawResult(holdings', channels',
                               WithdrawalRequest(last'.channel, last'.who, last'.who, clock'),
                               clock')
              IN  /\ last'.err = "LedgerError"
                  /\ slot \in DOMAIN holdings'
                  /\ holdings'[slot] = GetOrDefault(holdings, slot) + last'.amount
                  /\ \A f \in (DOMAIN holdings \cup DOMAIN holdings') \ {slot} :
                         f \in DOMAIN holdings /\ f \in DOMAIN holdings'
                         /\ holdings'[f] = holdings[f]
                  /\ channels' = channels
                  /\ Len(pending') = Len(pending) - 1
                  /\ retry.err = "none" /\ retry.amount = holdings'[slot]
       /\ last'.op = "transfer_ok" => (last'.err = "none" /\ holdings' = holdings)
       /\ Len(pending') < Len(pending) => (TransferFailed(last') \/ last'.op = "transfer_ok")
      ]_vars

\* The transfer of a withdraw failed, and the slot, to which nothing was deposited
\* in the meantime, holds the drained amount again.
C17_Witness ==
    /\ last.op = "transfer_error" /\ last.err = "LedgerError" /\ last.amount > 0
    /\ IsSettledAt(last.channel, clock)
    /\ holdings[Funding(last.channel, last.who)] = last.amount

(***************************************************************************)
(* C18  The lock of the canister state is not held across the ledger       *)
(* transfer of a withdraw: while transfers are pending the lock is free,   *)
(* so deposit, conclude, dispute and withdraw calls are processed; a call  *)
(* takes and releases the lock within its own step.                        *)
(***************************************************************************)
C18_LockFreeDuringTransfer ==
    /\ [](Len(pending) > 0 => Unlocked)
    /\ [][(Len(pending) > 0 /\ Len(pending') >= Len(pending))
              => /\ last'.op \in {"deposit_mocked", "conclude", "withdraw_impl"}
                 /\ Unlocked']_vars

\* While the transfer of one withdraw is still pending, a second withdraw has
\* drained its slot and waits for its own transfer.
C18_Witness ==
    /\ Len(pending) = 2
    /\ last.op = "withdraw_impl" /\ last.err = "none" /\ last.amount > 0

(***************************************************************************)
(* C21  deposit(funding, amount) never fails, creates the slot if absent,  *)
(* adds exactly amount to holdings[funding] (repeated deposits add up) and *)
(* leaves every other slot and the registry unchanged; query_holdings      *)
(* reports a slot as absent until a deposit or a registration wrote it.    *)
(***************************************************************************)
C21_DepositFrame ==
    /\ [](\A f \in Fundings, a \in 0..MaxAmount, b \in 0..MaxAmount :
              LET h1 == Credit(holdings, f, a)
                  h2 == Credit(h1, f, b)
              IN  /\ DOMAIN h1 = DOMAIN holdings \cup {f}
                  /\ h1[f] = GetOrDefault(holdings, f) + a
                  /\ \A g \in DOMAIN holdings \ {f} : h1[g] = holdings[g]
                  /\ h2[f] = GetOrDefault(holdings, f) + a + b
                  /\ QueryHoldings(h1, f) = <<GetOrDefault(holdings, f) + a>>)
    /\ [][/\ last'.op = "deposit_mocked"
             => (LET f == Funding(last'.channel, last'.who)
                 IN  /\ last'.err = "none"
                     /\ DOMAIN holdings' = DOMAIN holdings \cup {f}
                     /\ holdings'[f] = GetOrDefault(holdings, f) + last'.amount
                     /\ \A g \in DOMAIN holdings \ {f} : holdings'[g] = holdings[g]
                     /\ channels' = channels)
          /\ \A slot \in Fundings :
                 (QueryHoldings(holdings, slot) = <<>> /\ QueryHoldings(holdings', slot) # <<>>)
                 => \/ /\ last'.op \in {"deposit_mocked", "deposit"}
                       /\ slot = Funding(last'.channel, last'.who)
                    \/ /\ last'.op \in {"conclude", "dispute"} /\ last'.err = "none"
                       /\ slot[1] = last'.channel]_vars

\* A second deposit into a slot added up with the first, while another slot of the
\* channel is still reported as absent.
C21_Witness ==
    /\ last.op = "deposit_mocked" /\ last.amount = MaxAmount
    /\ QueryHoldings(holdings, Funding(last.channel, last.who)) = <<2 * MaxAmount>>
    /\ \E who \in Accounts : QueryHoldings(holdings, Funding(last.channel, who)) = <<>>

(***************************************************************************)
(* C22  Deposits commute: two deposits, to different slots or to the same  *)
(* slot, yield the same holdings in either order, and deposits into the    *)
(* same slot accumulate additively.                                        *)
(***************************************************************************)
C22_DepositsCommute ==
    \A f \in Fundings, g \in Fundings, a \in 0..MaxAmount, b \in 0..MaxAmount :
        LET fg == Credit(Credit(holdings, f, a), g, b)
            gf == Credit(Credit(holdings, g, b), f, a)
        IN  /\ fg = gf
            /\ {f, g} \subseteq DOMAIN fg
            /\ f = g => fg[f] = GetOrDefault(holdings, f) + a + b
            /\ f # g => /\ fg[f] = GetOrDefault(holdings, f) + a
                        /\ fg[g] = GetOrDefault(holdings, g) + b

\* Deposits went to both slots of a channel, two of them to the same slot.
C22_Witness ==
    /\ last.op = "deposit_mocked" /\ last.amount = MaxAmount
    /\ \E who \in Accounts :
           /\ who # last.who
           /\ QueryHoldings(holdings, Funding(last.channel, who)) = <<2 * MaxAmount>>
           /\ QueryHoldings(holdings, Funding(last.channel, last.who)) = <<MaxAmount>>

(***************************************************************************)
(* C23  Challenge period: after a successful dispute of a non-final state  *)
(* at clock time t0 the registered timeout is t0 + challenge_duration;     *)
(* before it the channel is not settled, every withdraw is refused and a   *)
(* newer dispute is accepted; from it on the channel is settled, as long   *)
(* as no newer state was registered.  settled(rs, now) holds exactly when  *)
(* rs.state.finalized or now >= rs.timeout.                                *)
(***************************************************************************)
C23_ChallengePeriod ==
    /\ [](\A ch \in DOMAIN channels :
              LET rs == channels[ch]
              IN  /\ \A t \in 0..(MaxTime + ChallengeDuration) :
                         Settled(rs, t) <=> (rs.state.finalized \/ t >= rs.timeout)
                  /\ (~rs.state.finalized /\ clock < rs.timeout)
                     => /\ ~Settled(rs, clock)
                        /\ \A req \in WithdrawalRequests :
                               req.channel = ch
                               => WithdrawResult(holdings, channels, req, clock).err
                                      \in {"NotFinalized", "Authentication"}
                        /\ \A req \in WellFormedRequests :
                               (req.state.channel = ch /\ req.state.version > rs.state.version)
                               => DisputeResult(holdings, channels, req, clock).err = "none"
                  /\ (~rs.state.finalized /\ clock >= rs.timeout)
                     => /\ Settled(rs, clock)
                        /\ \A req \in WellFormedRequests :
                               req.state.channel = ch
                               => DisputeResult(holdings, channels, req, clock).err
                                      = "AlreadyConcluded")
    /\ [][/\ (last'.op = "dispute" /\ last'.err = "none"
              /\ ~channels'[last'.channel].state.finalized)
             => /\ ChallengeDuration >= 1
                /\ channels'[last'.channel].timeout = clock + ChallengeDuration
                /\ \A t \in 0..(MaxTime + ChallengeDuration) :
                       Settled(channels'[last'.channel], t) <=> t >= clock + ChallengeDuration
          /\ \A ch \in DOMAIN channels :
                 channels'[ch] # channels[ch]
                 => /\ last'.op \in {"conclude", "dispute"}
                    /\ last'.err = "none" /\ last'.channel = ch]_vars

\* A withdraw paid out of a channel whose non-final state was registered by a
\* dispute and whose timeout the canister's clock had not reached.
C23_Witness ==
    /\ last.op = "withdraw" /\ last.err = "none" /\ last.amount = MaxAmount
    /\ last.channel \in DOMAIN channels
    /\ ~channels[last.channel].state.finalized
    /\ clock < channels[last.channel].timeout

(***************************************************************************)
(* C24  A successful dispute at clock time now stores a registered state   *)
(* whose timeout is 0 when the submitted state is finalized and            *)
(* now + params.challenge_duration when it is not.                         *)
(***************************************************************************)
C24_DisputeTimeout ==
    /\ [](\A req \in Requests :
              LET r == DisputeResult(holdings, channels, req, clock)
              IN  r.err = "none"
                  => /\ r.channels[req.state.channel].state = req.state
                     /\ r.channels[req.state.channel].timeout
                            = IF req.state.finalized THEN 0
                              ELSE clock + req.params.challenge_duration)
    /\ [][(last'.op = "dispute" /\ last'.err = "none")
              => channels'[last'.channel].timeout
                     = IF channels'[last'.channel].state.finalized THEN 0
                       ELSE clock + ChallengeDuration]_vars

\* A dispute registered a finalized state with the timeout at the end of a
\* challenge period.
C24_Witness ==
    /\ last.op = "dispute" /\ last.err = "none"
    /\ channels[last.channel].state.finalized
    /\ channels[last.channel].timeout = clock + ChallengeDuration
    /\ channels[last.channel].timeout > 0

(***************************************************************************)
(* C25  A successful conclude stores the state with timeout 0.  A channel  *)
(* whose registered state is finalized, registered by conclude or by a     *)
(* dispute, is settled at the clock time of its registration and at every  *)
(* other time, and a correctly signed withdraw succeeds at once.           *)
(***************************************************************************)
C25_FinalizedSettledAtOnce ==
    /\ [](/\ \A req \in Requests :
                LET r == ConcludeResult(holdings, channels, req, clock)
                IN  r.err = "none"
                    => r.channels[req.state.channel] = [state |-> req.state, timeout |-> 0]
          /\ \A ch \in DOMAIN channels :
                channels[ch].state.finalized
                => /\ \A t \in 0..(MaxTime + ChallengeDuration) : Settled(channels[ch], t)
                   /\ \A req \in WithdrawalRequests :
                          (req.channel = ch /\ WithdrawalValidateSig(req, req.signature))
                          => LET r == WithdrawResult(holdings, channels, req, clock)
                             IN  /\ r.err = "none"
                                 /\ r.amount = GetOrDefault(holdings,
                                                    Funding(ch, req.participant))
                                 /\ Funding(ch, req.participant) \notin DOMAIN r.holdings)
    /\ [][/\ (last'.op = "conclude" /\ last'.err = "none")
             => /\ channels'[last'.channel].timeout = 0
                /\ channels'[last'.channel].state.finalized
          /\ (/\ last'.op \in {"conclude", "dispute"} /\ last'.err = "none"
              /\ channels'[last'.channel].state.finalized)
             => /\ clock' = clock
                /\ Settled(channels'[last'.channel], clock')]_vars

\* A withdraw paid out at the clock time at which a dispute registered the final
\* state, before the timeout the dispute stored.
C25_Witness ==
    /\ last.op = "withdraw" /\ last.err = "none" /\ last.amount > 0
    /\ last.channel \in DOMAIN channels
    /\ channels[last.channel].state.finalized
    /\ clock < channels[last.channel].timeout

(***************************************************************************)
(* C26  A settled channel is mutated by withdrawals only: once a channel   *)
(* is settled at the clock, no operation changes its registry entry, and   *)
(* the only change to a holdings slot of the channel is its removal by a   *)
(* successful withdraw of that participant.                                *)
(***************************************************************************)
C26_SettledOnlyWithdrawn ==
    [][\A ch \in DOMAIN channels :
          IsSettledAt(ch, clock)
          => /\ ch \in DOMAIN channels' /\ channels'[ch] = channels[ch]
             /\ \A who \in Accounts :
                    QueryHoldings(holdings', Funding(ch, who))
                        # QueryHoldings(holdings, Funding(ch, who))
                    => /\ last'.op = "withdraw" /\ last'.err = "none"
                       /\ last'.channel = ch /\ last'.who = who
                       /\ QueryHoldings(holdings', Funding(ch, who)) = <<>>]_vars

\* A deposit raised a slot of a settled channel above every allocation entry a
\* registration can have written to it.
C26_Witness ==
    /\ last.op = "deposit_mocked" /\ last.amount > 0
    /\ IsSettledAt(last.channel, clock)
    /\ channels[last.channel].state.finalized
    /\ holdings[Funding(last.channel, last.who)] > MaxAmount

(***************************************************************************)
(* C27  Registry persistence: a registered channel stays in the registry;  *)
(* no operation removes an entry, withdraw included even when it drains    *)
(* the last slot, so query_state keeps returning the entry and disputes    *)
(* of a settled channel keep being rejected.                               *)
(***************************************************************************)
C27_RegistryPersists ==
    /\ [](/\ \A req \in Requests :
                /\ DOMAIN channels
                       \subseteq DOMAIN ConcludeResult(holdings, channels, req, clock).channels
                /\ DOMAIN channels
                       \subseteq DOMAIN DisputeResult(holdings, channels, req, clock).channels
          /\ \A req \in WithdrawalRequests :
                WithdrawResult(holdings, channels, req, clock).channels = channels
          /\ \A ch \in DOMAIN channels :
                (IsSettledAt(ch, clock) /\ \A who \in Accounts : Funding(ch, who) \notin DOMAIN holdings)
                => \A req \in WellFormedRequests :
                       req.state.channel = ch
                       => DisputeResult(holdings, channels, req, clock).err = "AlreadyConcluded")
    /\ [][/\ \A ch \in ChannelIds :
                QueryState(channels, ch) # <<>> => QueryState(channels', ch) # <<>>
          /\ last'.op = "withdraw" => channels' = channels]_vars

\* A withdraw drained the last slot of a settled channel, and query_state still
\* returns the registered state.
C27_Witness ==
    /\ last.op = "withdraw" /\ last.err = "none" /\ last.amount > 0
    /\ QueryState(channels, last.channel) # <<>>
    /\ IsSettledAt(last.channel, clock)
    /\ \A who \in Accounts : QueryHoldings(holdings, Funding(last.channel, who)) = <<>>

(***************************************************************************)
(* C28  Every registered state is stored under its own channel id, and it  *)
(* was accepted together with params whose id is that channel id and whose *)
(* participants are as many as the entries of the state's allocation;      *)
(* this holds after every sequence of conclude and dispute calls.          *)
(***************************************************************************)
C28_RegisteredStatesWellFormed ==
    /\ \A ch \in DOMAIN channels :
           /\ channels[ch].state.channel = ch
           /\ \E params \in {SetupParams, OtherParams, TwinParams} :
                  /\ ParamsId(params) = ch
                  /\ Len(channels[ch].state.allocation) = Len(params.participants)
    /\ \A req \in Requests :
           LET concluded == ConcludeResult(holdings, channels, req, clock)
               disputed == DisputeResult(holdings, channels, req, clock)
           IN  /\ (concluded.err = "none" \/ disputed.err = "none")
                  => /\ req.state.channel = ParamsId(req.params)
                     /\ Len(req.state.allocation) = Len(req.params.participants)
               /\ concluded.err = "none"
                  => /\ concluded.channels[req.state.channel].state = req.state
                     /\ \A ch \in DOMAIN channels \ {req.state.channel} :
                            concluded.channels[ch] = channels[ch]
               /\ disputed.err = "none"
                  => /\ disputed.channels[req.state.channel].state = req.state
                     /\ \A ch \in DOMAIN channels \ {req.state.channel} :
                            disputed.channels[ch] = channels[ch]

\* A dispute replaced an earlier registration after a request with other params
\* or a longer allocation could have been submitted, and the entry is keyed by
\* the id of the params.
C28_Witness ==
    /\ last.op = "dispute" /\ last.err = "none" /\ last.prev >= 0
    /\ QueryState(channels, ParamsId(SetupParams)) # <<>>
    /\ channels[ParamsId(SetupParams)].state.channel = ParamsId(SetupParams)
    /\ Len(channels[ParamsId(SetupParams)].state.allocation) = Len(SetupParams.participants)
    /\ QueryState(channels, ParamsId(OtherParams)) = <<>>

(***************************************************************************)
(* C30  As claimed: holdings_total(params) is the sum, over the            *)
(* participants of params, of the holdings of slot (params.id(),           *)
(* participant), an absent slot counting 0; it is 0 for a channel without  *)
(* deposits and registration, and after deposits only it equals the sum of *)
(* those deposits.                                                         *)
(***************************************************************************)
C30_TotalEqualsDeposits ==
    \A params \in {SetupParams, TwinParams} :
        LET ch == ParamsId(params)
            total == HoldingsTotal(holdings, params)
        IN  /\ total = GetOrDefault(holdings, Funding(ch, params.participants[1]))
                        + GetOrDefault(holdings, Funding(ch, params.participants[2]))
            /\ (ch \notin DOMAIN channels /\ credited[ch] = 0) => total = 0
            /\ ch \notin DOMAIN channels => total = credited[ch]

\* How often the params list an account as a participant.
Listings(params, who) ==
    Cardinality({i \in 1..Len(params.participants) : params.participants[i] = who})

\* The participants of the params are pairwise different.
DistinctParticipants(params) ==
    \A i \in 1..Len(params.participants), j \in 1..Len(params.participants) :
        params.participants[i] = params.participants[j] => i = j

(***************************************************************************)
(* C30  holdings_total(params) is the sum, over the participants of params *)
(* as listed, of the holdings of slot (params.id(), participant), an       *)
(* absent slot counting 0, so that a slot counts once per listing of its   *)
(* participant; it is 0 for a channel without deposits and registration;   *)
(* after deposits only, the slots of the channel add up to the deposits,   *)
(* and holdings_total equals the sum of the deposits when the participants *)
(* of params are pairwise different.                                       *)
(***************************************************************************)
C30_TotalCountsListings ==
    \A params \in {SetupParams, TwinParams} :
        LET ch == ParamsId(params)
            total == HoldingsTotal(holdings, params)
        IN  /\ total = GetOrDefault(holdings, Funding(ch, params.participants[1]))
                        + GetOrDefault(holdings, Funding(ch, params.participants[2]))
            /\ total = SumSeq([i \in 1..Len(Parts) |->
                                  Listings(params, Parts[i])
                                      * GetOrDefault(holdings, Funding(ch, Parts[i]))])
            /\ (ch \notin DOMAIN channels /\ credited[ch] = 0) => total = 0
            /\ ch \notin DOMAIN channels
               => /\ ChannelHoldings(holdings, ch, SetupParams) = credited[ch]
                  /\ DistinctParticipants(params) => total = credited[ch]

\* Two deposits of 1 went to the only slot of the channel whose params list Alice
\* twice, nothing was registered, and holdings_total is 4.
C30_Witness ==
    /\ last.op = "deposit_mocked"
    /\ ParamsId(TwinParams) \notin DOMAIN channels
    /\ credited[ParamsId(TwinParams)] = 2 * MaxAmount
    /\ HoldingsTotal(holdings, TwinParams) = 4 * MaxAmount
    /\ HoldingsTotal(holdings, SetupParams) = credited[ParamsId(SetupParams)]
    /\ credited[ParamsId(SetupParams)] > 0

\* idx lists, without repetition, the positions in the history of exactly the
\* events registered for channel ch at a time >= since, ordered by that time and,
\* for equal times, by registration.
InTimeOrder(idx, ch, since) ==
    /\ \A i \in DOMAIN idx, j \in DOMAIN idx :
           i < j => \/ emitted[idx[i]].time < emitted[idx[j]].time
                    \/ /\ emitted[idx[i]].time = emitted[idx[j]].time
                       /\ idx[i] < idx[j]
    /\ {idx[i] : i \in DOMAIN idx}
           = {k \in 1..Len(emitted) : emitted[k].channel = ch /\ emitted[k].time >= since}

(***************************************************************************)
(* C29  query_events(channel, since) returns exactly the events registered *)
(* for the channel with a timestamp >= since, in non-decreasing order of   *)
(* the timestamp and, for equal timestamps, in the order in which they     *)
(* were registered; it never returns an event of another channel.  The     *)
(* handlers of the adjudicator register their events at the block time.    *)
(***************************************************************************)
C29_EventsInTimeOrder ==
    /\ [](\A ch \in ChannelIds, since \in 0..(MaxTime + 1) :
              LET reply == EventsAfter(events, ch, since)
              IN  /\ \E idx \in [1..Len(reply) -> 1..Len(emitted)] :
                         /\ InTimeOrder(idx, ch, since)
                         /\ \A i \in 1..Len(reply) : reply[i] = emitted[idx[i]].event
                  /\ EventsAfterStr(events, ch, since)
                         = IF \E k \in 1..Len(emitted) : emitted[k].channel = ch
                           THEN FormatLines(reply) ELSE "No events")
    /\ [][(Len(emitted') > Len(emitted) /\ last'.op # "register_event")
              => LET new == emitted'[Len(emitted')]
                 IN  /\ Len(emitted') = Len(emitted) + 1
                     /\ new.channel = last'.channel
                     /\ new.time = clock
                     /\ new.event[Len(new.event)] = clock
                     /\ \A k \in 1..Len(emitted) : emitted[k] = emitted'[k]]_vars

\* Two events of the setup channel were registered for the same time, after an
\* event of an earlier time that a query since the later time leaves out.
C29_Witness ==
    /\ Len(emitted) = MaxEvents
    /\ Len(EventsAfter(events, SetupChannel, 0)) = 3
    /\ \E since \in 1..MaxTime :
           /\ Len(EventsAfter(events, SetupChannel, since)) = 2
           /\ since \in DOMAIN events[SetupChannel]
           /\ Len(events[SetupChannel][since]) = 2
           /\ events[SetupChannel][since][1] # events[SetupChannel][since][2]

(***************************************************************************)
(* The payment receiver in front of the ICP ledger.                        *)
(***************************************************************************)
\* The errors of verify that the query of the block or its recipient cause.
QueryErrors == {"Recipient", "TransactionType", "FailedToQuery"}

\* C31: a verify that fails with Recipient, TransactionType or FailedToQuery
\* leaves the known set and the unspent balances as they were, and a repeated
\* verify of a block paid to another account returns Recipient again.
C31_FailedVerifyKeepsState ==
    /\ [](\A h \in 0..MaxHeight :
            LET r == VerifyResult(known_txs, unspent, txs, h)
            IN  /\ r.err \in QueryErrors
                    => r.known_txs = known_txs /\ r.unspent = unspent
                /\ r.err = "Recipient"
                    => VerifyResult(r.known_txs, r.unspent, txs, h).err = "Recipient")
    /\ [][last'.op = "transaction_notification" /\ last'.err \in QueryErrors
              => UNCHANGED <<known_txs, unspent>>]_vars

\* Each of the three failures has happened at some height.
C31_Witness ==
    /\ last.op = "transaction_notification" /\ last.err = "Recipient"
    /\ 3 \in known_txs
    /\ VerifyResult(known_txs, unspent, txs, 4).err = "TransactionType"
    /\ VerifyResult(known_txs, unspent, txs, 5).err = "TransactionType"
    /\ VerifyResult(known_txs, unspent, txs, 6).err = "FailedToQuery"

\* The memos of the slots deposits are made to.
Memos == {Memo(f) : f \in DepositFundings}

\* The block at height h is a transfer or a mint paid to the adjudicator.
PaysAdjudicator(ledger, h) ==
    /\ h \in DOMAIN ledger
    /\ ledger[h].operation \in {"Transfer", "Mint"}
    /\ ledger[h].to = MyAccount

\* C32: verify of a not yet known transfer or mint paid to the adjudicator
\* succeeds; a successful verify returns the amount of the block, adds the height
\* to the known set and adds exactly that amount to the unspent balance of the
\* block's memo, on top of what earlier heights with that memo left there, and
\* it leaves the unspent balance of every other memo as it was.
C32_VerifyCreditsMemo ==
    /\ [](\A h \in 0..MaxHeight :
            LET r == VerifyResult(known_txs, unspent, txs, h)
            IN  /\ r.err = "none" <=> (h \notin known_txs /\ PaysAdjudicator(txs, h))
                /\ r.err = "none"
                    => /\ r.amount = txs[h].amount
                       /\ r.known_txs = known_txs \cup {h}
                       /\ DOMAIN r.unspent = DOMAIN unspent \cup {txs[h].memo}
                       /\ r.unspent[txs[h].memo]
                              = GetOrDefault(unspent, txs[h].memo) + txs[h].amount
                       /\ \A m \in DOMAIN unspent \ {txs[h].memo} :
                              r.unspent[m] = unspent[m])
    /\ [][last'.op = "transaction_notification" /\ last'.err = "none"
              => \E h \in known_txs' \ known_txs :
                    /\ known_txs' = known_txs \cup {h}
                    /\ last'.amount = txs[h].amount
                    /\ unspent'[txs[h].memo]
                           = GetOrDefault(unspent, txs[h].memo) + last'.amount
                    /\ \A m \in Memos \ {txs[h].memo} :
                           GetOrDefault(unspent', m) = GetOrDefault(unspent, m)]_vars

\* The transfer and the mint with Alice's memo have both been verified while a
\* payment with Bob's memo is unspent: the amounts add up and Bob's stays.
C32_Witness ==
    /\ last.op = "transaction_notification" /\ last.err = "none" /\ last.amount = 1
    /\ {0, 1, 2} \subseteq known_txs
    /\ GetOrDefault(unspent, Memo(Funding(ParamsId(SetupParams), Alice))) = 2
    /\ GetOrDefault(unspent, Memo(Funding(ParamsId(SetupParams), Bob))) = 1

RECURSIVE SumOver(_, _)
\* The sum of the values a map holds for `keys`.
SumOver(map, keys) ==
    IF keys = {} THEN 0
    ELSE LET k == CHOOSE x \in keys : TRUE
         IN  map[k] + SumOver(map, keys \ {k})

\* The amounts of the blocks verify has accepted, one per accepted verify.
VerifiedAmounts == [h \in DOMAIN txs |-> verified[h] * txs[h].amount]

\* C33: deposit(funding) adds the whole unspent balance of funding.memo() to
\* holdings[funding] and removes the memo from unspent, so a second deposit with
\* no verified transaction in between adds 0; and at all times the unspent
\* balances plus the amounts deposit(funding) has credited add up to the
\* amounts of the verified transactions.
C33_DepositDrainsUnspent ==
    /\ [](/\ \A f \in DepositFundings :
              LET d == Drain(unspent, Memo(f))
              IN  /\ d.amount = GetOrDefault(unspent, Memo(f))
                  /\ DOMAIN d.unspent = DOMAIN unspent \ {Memo(f)}
                  /\ \A m \in DOMAIN d.unspent : d.unspent[m] = unspent[m]
                  /\ Drain(d.unspent, Memo(f)).amount = 0
          /\ SumOver(unspent, DOMAIN unspent) + SumOver(credited, DOMAIN credited)
                 = SumOver(VerifiedAmounts, DOMAIN VerifiedAmounts))
    /\ [][last'.op = "deposit"
              => LET f == Funding(last'.channel, last'.who)
                 IN  /\ last'.err = "none"
                     /\ last'.amount = GetOrDefault(unspent, Memo(f))
                     /\ holdings' = Credit(holdings, f, last'.amount)
                     /\ holdings'[f] = GetOrDefault(holdings, f) + last'.amount
                     /\ Memo(f) \notin DOMAIN unspent'
                     /\ \A m \in Memos \ {Memo(f)} :
                            GetOrDefault(unspent', m) = GetOrDefault(unspent, m)
                     /\ (last.op = "deposit" /\ f = Funding(last.channel, last.who))
                            => last'.amount = 0 /\ holdings'[f] = holdings[f]]_vars

\* Alice's slot holds the two verified payments after a deposit, and a further
\* deposit for the slot has just credited nothing, while Bob's payment is unspent.
C33_Witness ==
    /\ last.op = "deposit" /\ last.who = Alice /\ last.amount = 0
    /\ holdings = Funding(ParamsId(SetupParams), Alice) :> 2
    /\ unspent = Memo(Funding(ParamsId(SetupParams), Bob)) :> 1
    /\ {0, 1, 2} \subseteq known_txs

C35_EventFailureNotRolledBack ==
    /\ [](\A req \in WellFormedRequests :
            LET r == DisputeResult(holdings, channels, req, clock)
            IN  (r.err = "none" /\ poisoned)
                    => /\ DisputeReply(r.err, EventLockOk) = "InvalidInput"
                       /\ r.channels[req.state.channel]
                              = RegisteredDispute(req, req.params, clock)
                       /\ r.holdings = UpdateHoldings(holdings, req.params, req.state))
    /\ [][(last'.op = "dispute" /\ poisoned)
              => /\ last'.err # "none"
                 /\ UNCHANGED <<events, emitted>>
                 /\ last'.err = "InvalidInput"
                        => /\ last'.channel \in DOMAIN channels'
                           /\ channels'[last'.channel].state.version > last'.prev
                           /\ channels'[last'.channel].timeout = clock + ChallengeDuration
                           /\ \A i \in 1..Len(Parts) :
                                  holdings'[Funding(last'.channel, Parts[i])]
                                      = channels'[last'.channel].state.allocation[i]
                 /\ last'.err # "InvalidInput" => UNCHANGED <<holdings, channels>>]_vars

\* With the lock of the event log poisoned, a dispute of version 1 has returned
\* InvalidInput, replaced the registered version 0, moved the deposit from
\* Alice's slot to Bob's and left the log without the event.
C35_Witness ==
    /\ poisoned
    /\ last.op = "dispute" /\ last.err = "InvalidInput" /\ last.prev = 0
    /\ channels[SetupChannel].state.version = 1
    /\ channels[SetupChannel].state.allocation = <<0, 1>>
    /\ holdings[Funding(SetupChannel, Bob)] = 1
    /\ holdings[Funding(SetupChannel, Alice)] = 0
    /\ Len(emitted) = 1

(***************************************************************************)
(* The life of a holdings slot.                                            *)
(***************************************************************************)
\* The deposits, which create a slot or add to it.
DepositOps == {"deposit", "deposit_mocked"}

\* C36: a slot leaves the holdings only by a successful withdraw for that slot,
\* which pays what the slot held; deposit, conclude and dispute remove no slot
\* and the queries change nothing; and a slot that a withdraw has removed (an
\* absent slot of a registered channel) comes back only by a deposit.
C36_SlotRemovedOnlyByWithdraw ==
    /\ [](\A f \in Fundings :
            /\ QueryHoldings(holdings, f) = IF f \in DOMAIN holdings THEN <<holdings[f]>>
                                           ELSE <<>>
            /\ \A req \in WithdrawalRequests :
                   LET r == WithdrawResult(holdings, channels, req, clock)
                   IN  (DOMAIN holdings \ DOMAIN r.holdings)
                           \subseteq (IF r.err = "none"
                                      THEN {Funding(req.channel, req.participant)}
                                      ELSE {}))
    /\ [][/\ \A f \in DOMAIN holdings \ DOMAIN holdings' :
                /\ last'.op = "withdraw" /\ last'.err = "none"
                /\ f = Funding(last'.channel, last'.who)
                /\ last'.amount = holdings[f]
          /\ (last'.op = "withdraw" /\ last'.err = "none")
                => Funding(last'.channel, last'.who) \notin DOMAIN holdings'
          /\ \A f \in DOMAIN holdings' \ DOMAIN holdings :
                f[1] \in DOMAIN channels
                    => last'.op \in DepositOps /\ f = Funding(last'.channel, last'.who)]_vars

\* Alice's slot of the registered setup channel is absent after her withdraw.
C36_Witness ==
    /\ last.op = "withdraw" /\ last.err = "none" /\ last.who = Alice /\ last.amount > 0
    /\ SetupChannel \in DOMAIN channels
    /\ Funding(SetupChannel, Alice) \notin DOMAIN holdings
    /\ Funding(SetupChannel, Bob) \in DOMAIN holdings

\* C37: each successful conclude registers exactly one Concluded event and each
\* successful dispute exactly one Disputed event, for the channel of the state
\* and the block time, with the block time as timestamp and with the registered
\* state (state and timeout) that the call stored in the registry; a conclude
\* or dispute that returns an error registers no event.
C37_EventCarriesRegisteredState ==
    [][last'.op \in {"conclude", "dispute"}
          => IF last'.err = "none"
             THEN LET new == emitted'[Len(emitted')]
                      rs == channels'[last'.channel]
                  IN  /\ Len(emitted') = Len(emitted) + 1
                      /\ SubSeq(emitted', 1, Len(emitted)) = emitted
                      /\ new.channel = last'.channel
                      /\ new.time = clock
                      /\ new.event = IF last'.op = "conclude" THEN Concluded(rs, clock)
                                     ELSE Disputed(rs, clock)
                      /\ events' = RegisterEvent(events, clock, last'.channel, new.event)
             ELSE UNCHANGED <<events, emitted>>]_vars

\* A conclude at block time 1 has registered a Concluded event whose registered
\* state carries the timeout 1, while the registry holds the timeout 0.
C37_Witness ==
    /\ last.op = "conclude" /\ last.err = "none" /\ clock = 1
    /\ channels[last.channel].timeout = 0
    /\ emitted # <<>>
    /\ emitted[Len(emitted)].event
           = Concluded([state |-> channels[last.channel].state, timeout |-> 1], 1)

(***************************************************************************)
(* Withdrawals that overlap.                                               *)
(***************************************************************************)
\* What the adjudicator owes for a slot: the amount in the slot plus the amounts
\* drained from it whose transfers await their reply.
SlotValue(h, transfers, f) ==
    GetOrDefault(h, f)
        + SumSeq([i \in 1..Len(transfers) |->
                     IF transfers[i].funding = f THEN transfers[i].amount ELSE 0])

\* The amount the step recorded in `call` moved for slot f, if it is one of `ops`.
MovedBy(call, ops, f) ==
    IF call.op \in ops /\ Funding(call.channel, call.who) = f THEN call.amount ELSE 0

C39_ConcludeIgnoresVersion ==
    /\ [](/\ \A req \in Requests :
              LET ch == req.state.channel
                  rc == ConcludeResult(holdings, channels, req, clock)
              IN  /\ rc.err # "OutdatedState"
                  /\ (/\ ch \in DOMAIN channels
                      /\ ~IsSettledAt(ch, clock)
                      /\ req.state.finalized
                      /\ StructurallyValid(req)
                      /\ AllSigsVerify(req)
                      /\ ~UnderFunded(req))
                         => /\ rc.err = "none"
                            /\ rc.channels[ch] = [state |-> req.state, timeout |-> 0]
          /\ \A req \in WithdrawalRequests :
                 WithdrawResult(holdings, channels, req, clock).err # "OutdatedState")
    /\ [][/\ last'.err = "OutdatedState" => last'.op = "dispute"
          /\ (last'.op = "conclude" /\ last'.err = "none")
                => /\ channels'[last'.channel].state.finalized
                   /\ channels'[last'.channel].timeout = 0]_vars

\* A conclude has replaced the registered version 1 by a finalized version 0.
C39_Witness ==
    /\ last.op = "conclude" /\ last.err = "none" /\ last.funded
    /\ last.prev = 1
    /\ channels[last.channel].state.version = 0
    /\ channels[last.channel].state.finalized

\* C40: the timeout of a dispute never wraps around.  For every block time and
\* every challenge duration, a successful dispute of a non-final state stores a
\* timeout that is not before the block time, so the channel is not settled at
\* that time unless the challenge duration is 0.
C40_TimeoutNotInPast ==
    [][(/\ last'.op = "dispute" /\ last'.err = "none"
        /\ ~channels'[last'.channel].state.finalized)
          => /\ channels'[last'.channel].timeout >= clock
             /\ last'.channel[3] > 0 => ~Settled(channels'[last'.channel], clock)]_vars

\* A dispute of a non-final state at the last block time of the range, for a
\* challenge duration of 1, has stored the timeout 0: the channel is settled at
\* once and the withdraw at the same block time has succeeded.
C40_Witness ==
    /\ clock = TimestampModulus - 1
    /\ last.op = "withdraw" /\ last.err = "none"
    /\ last.channel = ParamsId(DurationParams(1))
    /\ ~channels[last.channel].state.finalized
    /\ channels[last.channel].timeout = 0

====
